---- MODULE Spec2Model ----
(***************************************************************************)
(* A model of the page replacement control plane of                        *)
(* usr/src/uts/common/os/vm_pageout.c: the threshold calculator            *)
(* (setupclock), the scheduler (schedpaging), the scanner workers          *)
(* (pageout_scanner), the dirty hand-off of checkpage, the writeback queue *)
(* (queue_io_request and the pageout master) and the deadman               *)
(* (pageout_deadman).  Names are those of the C source.  Page counts are   *)
(* in pages of PAGESIZE bytes; byte sizes are kept in megabytes so that    *)
(* every intermediate value fits the integers of TLC.                      *)
(***************************************************************************)
EXTENDS Integers, Sequences, FiniteSets, TLC

(* ------------------------------------------------------------------ *)
(* Program constants                                                  *)
(* ------------------------------------------------------------------ *)
PAGESIZE == 4096
MEGABYTES == 1048576
LOTSFREE_MIN_DEFAULT == 16
LOTSFREE_MAX_DEFAULT == 2048
REGION_DEFAULT_MB == 65536
MAXHANDSPREAD_MB == 64
DISKRPM == 60
NANOSEC == 1000000000
SCHEDPAGING_HZ == 4
MAX_PSCAN_THREADS == 16
MIN_PO_SHARE == 8
PO_SHARE_SHIFT == 24
PAGES_POLL_MASK == 1023
lotsfree_fraction == 64
loopfraction == 2
maxslowscan == 100
min_percent_cpu == 4
max_percent_cpu == 80
pageout_sample_lim == 4

\* btop() of a size given in megabytes
btop(mb) == mb * (MEGABYTES \div PAGESIZE)

MAXHANDSPREADPAGES == btop(MAXHANDSPREAD_MB)

RECURSIVE Pow2(_)
Pow2(n) == IF n = 0 THEN 1 ELSE 2 * Pow2(n - 1)

MAX_PO_SHARE == MIN_PO_SHARE * Pow2(PO_SHARE_SHIFT)

MIN(a, b) == IF a < b THEN a ELSE b
MAX(a, b) == IF a > b THEN a ELSE b

\* nz(): a zero divisor becomes one
nz(x) == IF x # 0 THEN x ELSE 1

(* ------------------------------------------------------------------ *)
(* 64-bit multiply-then-divide.  The C code forms products such as     *)
(* pages * NANOSEC in 64 bits; MulQR(a, b, c) is the pair              *)
(* <<(a*b) div c, (a*b) mod c>> computed by doubling, so that no       *)
(* intermediate value exceeds 2*c or the quotient itself.              *)
(* ------------------------------------------------------------------ *)
RECURSIVE MulQR(_, _, _)
MulQR(a, b, c) ==
    IF a = 0 THEN <<0, 0>>
    ELSE LET h  == MulQR(a \div 2, b, c)
             d  == 2 * h[2]
             c1 == IF d >= c THEN 1 ELSE 0
             e  == (d - c1 * c) + (IF a % 2 = 1 THEN b % c ELSE 0)
             c2 == IF e >= c THEN 1 ELSE 0
             q  == 2 * h[1] + (IF a % 2 = 1 THEN b \div c ELSE 0)
         IN  <<q + c1 + c2, e - c2 * c>>

MulDiv(a, b, c) == MulQR(a, b, c)[1]

\* (a*b + c*d) div e, as one 64-bit expression
MulAddDiv(a, b, c, d, e) ==
    LET x == MulQR(a, b, e)
        y == MulQR(c, d, e)
    IN  x[1] + y[1] + ((x[2] + y[2]) \div e)

(* ------------------------------------------------------------------ *)
(* Bounds of the model                                                *)
(* ------------------------------------------------------------------ *)
\* how many tunables the operator patches in /etc/system before boot
MaxPatches == 2
\* scanner threads that can exist; lwp_kernel_create fails beyond it
MaxThreads == 3
\* largest async_list_size explored
MaxAsync == 2
\* completed pushes explored (pageout_pushcount)
MaxPushCount == 2
\* deadman ticks explored
MaxTicks == 4
\* largest pageout_deadman_seconds explored
MaxDeadman == 2
\* page pairs of one wake cycle for which both hands are ineligible
MaxIneligible == 1
\* front hand wraps counted per thread (iter)
MaxIter == 5

VARIABLES
    \* system size and the thresholds of setupclock
    total_pages, looppages, pageout_threshold_style,
    lotsfree_min, lotsfree_max, lotsfree, desfree, minfree, throttlefree,
    pageout_reserve, maxpgio, maxfastscan, fastscan, slowscan,
    handspreadpages, clockinit, pscan_region_sz,
    \* calibration
    pageout_new_spread, pageout_sample_cnt, pageout_sample_pages,
    pageout_sample_etime, pageout_rate,
    \* scanner pool
    des_page_scanners, n_page_scanners, reset_hands, pageout_reset_cnt,
    scanners,
    \* memory signals read by the scheduler and the scanners
    freemem, needfree, deficit, zone_num_over_cap, dopageout,
    \* scheduler outputs
    nscan, desscan, pageout_nsec, min_pageout_nsec, max_pageout_nsec,
    zone_pageout_nsec, zones_over, po_share, pageout_timeouts,
    \* writeback queue and master
    async_list_size, req_freelist, push_list, push_list_size, pushes,
    max_pushes, a_vp, master, v_count,
    \* checkpage invocations on dirty pages
    ckp,
    \* deadman
    pageout_deadman_seconds, pageout_stucktime, pageout_pushing,
    pageout_pushcount, pageout_pushcount_seen, panicstr, dm,
    \* history kept for the properties: what each deadman tick observed, the
    \* tick on which the deadman panicked, and the ticks that saw the current push
    dm_obs, dm_panic_tick, push_ticks,
    \* exploration bookkeeping: phase of the run, patches made, last operation
    phase, npatch, last

clockvars == <<total_pages, looppages, pageout_threshold_style,
               lotsfree_min, lotsfree_max, lotsfree, desfree, minfree,
               throttlefree, pageout_reserve, maxpgio, maxfastscan, fastscan,
               slowscan, handspreadpages, clockinit, pscan_region_sz>>
calvars == <<pageout_new_spread, pageout_sample_cnt, pageout_sample_pages,
             pageout_sample_etime, pageout_rate>>
poolvars == <<des_page_scanners, n_page_scanners, reset_hands>>
scanvars == <<pageout_reset_cnt, scanners>>
envvars == <<freemem, needfree, deficit, zone_num_over_cap, dopageout>>
schedvars == <<nscan, desscan, pageout_nsec, zones_over, po_share>>
nsecvars == <<min_pageout_nsec, max_pageout_nsec, zone_pageout_nsec,
              pageout_timeouts>>
queuevars == <<async_list_size, req_freelist, push_list, push_list_size,
               pushes, max_pushes, a_vp, master, v_count>>
pushvars == <<pageout_pushing, pageout_pushcount>>
dmvars == <<pageout_deadman_seconds, pageout_stucktime,
            pageout_pushcount_seen, panicstr, dm, dm_obs, dm_panic_tick>>
bookvars == <<phase, npatch>>

vars == <<clockvars, calvars, poolvars, scanvars, envvars, schedvars,
          nsecvars, queuevars, ckp, pushvars, push_ticks, dmvars, bookvars,
          last>>

(* ------------------------------------------------------------------ *)
(* setupclock                                                         *)
(* ------------------------------------------------------------------ *)
\* clamp without the lower limit
clamp_nofloor(value, minimum, maximum) ==
    IF value > maximum THEN maximum ELSE value

clamp(value, minimum, maximum) ==
    IF value < minimum THEN minimum
    ELSE IF value > maximum THEN maximum
    ELSE value

\* tune losing the operator's value
tune_default(initval, initval_ceiling, defval) == defval

tune(initval, initval_ceiling, defval) ==
    IF initval = 0 \/ initval >= initval_ceiling THEN defval ELSE initval

\* the sticky snapshot of the operator's values, taken on the first call
clockinit_snapshot ==
    [ci_init |-> TRUE,
     ci_lotsfree_min |-> lotsfree_min, ci_lotsfree_max |-> lotsfree_max,
     ci_lotsfree |-> lotsfree, ci_desfree |-> desfree, ci_minfree |-> minfree,
     ci_throttlefree |-> throttlefree,
     ci_pageout_reserve |-> pageout_reserve, ci_maxpgio |-> maxpgio,
     ci_maxfastscan |-> maxfastscan, ci_fastscan |-> fastscan,
     ci_slowscan |-> slowscan, ci_handspreadpages |-> handspreadpages]

\* the threshold chain of one setupclock call, from snapshot ci and looppages lp
Thresholds(ci, lp, half) ==
    LET lmax == tune(ci.ci_lotsfree_max, lp, btop(LOTSFREE_MAX_DEFAULT))
        lmin == tune(ci.ci_lotsfree_min, lmax, btop(LOTSFREE_MIN_DEFAULT))
        lf   == tune(ci.ci_lotsfree, lp,
                     clamp(lp \div lotsfree_fraction, lmin, lmax))
        df   == tune(ci.ci_desfree, lf, lf \div 2)
        mf   == tune(ci.ci_minfree, df,
                     IF half THEN df \div 2 ELSE (3 * df) \div 4)
        tf   == tune(ci.ci_throttlefree, df, mf)
        pr   == tune(ci.ci_pageout_reserve, tf,
                     IF half THEN tf \div 2 ELSE (3 * tf) \div 4)
    IN  [lotsfree_max |-> lmax, lotsfree_min |-> lmin, lotsfree |-> lf,
         desfree |-> df, minfree |-> mf, throttlefree |-> tf,
         pageout_reserve |-> pr]

\* maxpgio ignoring the operator's value
calc_maxpgio_default(ci) == (DISKRPM * 2) \div 3

calc_maxpgio(ci) ==
    IF ci.ci_maxpgio = 0 THEN (DISKRPM * 2) \div 3 ELSE ci.ci_maxpgio

calc_maxfastscan(ci, spread) ==
    IF ci.ci_maxfastscan = 0
    THEN (IF spread # 0 THEN spread ELSE MAXHANDSPREADPAGES)
    ELSE ci.ci_maxfastscan

\* calc_fastscan without the final cap at looppages / loopfraction
calc_fastscan_nocap(ci, lp, maxfs) ==
    IF ci.ci_fastscan = 0
    THEN MIN(lp \div loopfraction, maxfs)
    ELSE ci.ci_fastscan

calc_fastscan(ci, lp, maxfs) ==
    LET fs == IF ci.ci_fastscan = 0
              THEN MIN(lp \div loopfraction, maxfs)
              ELSE ci.ci_fastscan
    IN  IF fs > lp \div loopfraction THEN lp \div loopfraction ELSE fs

\* slowscan from the fastscan published by the previous call
calc_slowscan_stale(ci, fs) ==
    LET ss == IF ci.ci_slowscan = 0 THEN MIN(fastscan \div 10, maxslowscan)
              ELSE ci.ci_slowscan
    IN  IF ss > fastscan \div 2 THEN fastscan \div 2 ELSE ss

calc_slowscan(ci, fs) ==
    LET ss == IF ci.ci_slowscan = 0
              THEN MIN(fs \div 10, maxslowscan)
              ELSE ci.ci_slowscan
    IN  IF ss > fs \div 2 THEN fs \div 2 ELSE ss

calc_handspreadpages(ci, fs, lp) ==
    LET hs == IF ci.ci_handspreadpages = 0 THEN fs
              ELSE ci.ci_handspreadpages
    IN  IF hs >= lp THEN lp - 1 ELSE hs

\* the region size without the limit total_pages
calc_region_sz_nolimit(T, hs) ==
    LET sz0 == btop(REGION_DEFAULT_MB)
    IN  IF sz0 < hs THEN hs * 2 ELSE sz0

\* the region size of a recalculating call
calc_region_sz(T, hs) ==
    LET sz0 == btop(REGION_DEFAULT_MB)
        sz1 == IF sz0 < hs THEN hs * 2 ELSE sz0
    IN  IF sz1 > T THEN T ELSE sz1

\* for (i = 1; tmp < total_pages; i++) tmp += sz;
RECURSIVE count_regions(_, _, _, _)
count_regions(i, tmp, sz, T) ==
    IF tmp < T THEN count_regions(i + 1, tmp + sz, sz, T) ELSE i

calc_des_page_scanners(T, hs) ==
    LET sz == calc_region_sz(T, hs)
        i  == count_regions(1, sz, sz, T)
    IN  IF i > MAX_PSCAN_THREADS THEN MAX_PSCAN_THREADS ELSE i

\* setupclock(), called with total_pages = T and pageout_new_spread = spread
setupclock(T, spread) ==
    LET recalc == clockinit.ci_init
        ci   == IF clockinit.ci_init THEN clockinit ELSE clockinit_snapshot
        half == (pageout_threshold_style = 1)
        th   == Thresholds(ci, T, half)
        mfs  == calc_maxfastscan(ci, spread)
        fs   == calc_fastscan(ci, T, mfs)
        ss   == calc_slowscan(ci, fs)
        hs   == calc_handspreadpages(ci, fs, T)
    IN  /\ looppages' = T
        /\ clockinit' = ci
        /\ lotsfree_max' = th.lotsfree_max
        /\ lotsfree_min' = th.lotsfree_min
        /\ lotsfree' = th.lotsfree
        /\ desfree' = th.desfree
        /\ minfree' = th.minfree
        /\ throttlefree' = th.throttlefree
        /\ pageout_reserve' = th.pageout_reserve
        /\ maxpgio' = calc_maxpgio(ci)
        /\ maxfastscan' = mfs
        /\ fastscan' = fs
        /\ slowscan' = ss
        /\ handspreadpages' = hs
        /\ IF ~recalc
           THEN /\ pscan_region_sz' = T
                /\ des_page_scanners' = 1
                /\ n_page_scanners' = 1
                /\ reset_hands' = [reset_hands EXCEPT ![0] = TRUE]
           ELSE /\ pscan_region_sz' = calc_region_sz(T, hs)
                /\ des_page_scanners' = calc_des_page_scanners(T, hs)
                /\ UNCHANGED <<n_page_scanners, reset_hands>>
        /\ UNCHANGED pageout_threshold_style

(* ------------------------------------------------------------------ *)
(* Initial values of the C globals                                     *)
(* ------------------------------------------------------------------ *)
NoClockinit ==
    [ci_init |-> FALSE,
     ci_lotsfree_min |-> 0, ci_lotsfree_max |-> 0, ci_lotsfree |-> 0,
     ci_desfree |-> 0, ci_minfree |-> 0, ci_throttlefree |-> 0,
     ci_pageout_reserve |-> 0, ci_maxpgio |-> 0, ci_maxfastscan |-> 0,
     ci_fastscan |-> 0, ci_slowscan |-> 0, ci_handspreadpages |-> 0]

ClockInit0(T, style) ==
    /\ total_pages = T
    /\ looppages = 0
    /\ pageout_threshold_style = style
    /\ lotsfree_min = 0 /\ lotsfree_max = 0 /\ lotsfree = 0
    /\ desfree = 0 /\ minfree = 0 /\ throttlefree = 0
    /\ pageout_reserve = 0 /\ maxpgio = 0 /\ maxfastscan = 0
    /\ fastscan = 0 /\ slowscan = 0 /\ handspreadpages = 0
    /\ clockinit = NoClockinit
    /\ pscan_region_sz = 0

\* the globals after the boot-time call setupclock(), with maxpgio patched
\* to pgio and lotsfree to lf (0: not patched), every other tunable left alone
ClockBooted(T, pgio, lf) ==
    LET ci  == [NoClockinit EXCEPT !.ci_init = TRUE, !.ci_maxpgio = pgio,
                                   !.ci_lotsfree = lf]
        th  == Thresholds(ci, T, FALSE)
        mfs == calc_maxfastscan(ci, 0)
        fs  == calc_fastscan(ci, T, mfs)
    IN  /\ total_pages = T /\ looppages = T
        /\ pageout_threshold_style = 0
        /\ clockinit = ci
        /\ lotsfree_max = th.lotsfree_max /\ lotsfree_min = th.lotsfree_min
        /\ lotsfree = th.lotsfree /\ desfree = th.desfree
        /\ minfree = th.minfree /\ throttlefree = th.throttlefree
        /\ pageout_reserve = th.pageout_reserve
        /\ maxpgio = calc_maxpgio(ci)
        /\ maxfastscan = mfs /\ fastscan = fs
        /\ slowscan = calc_slowscan(ci, fs)
        /\ handspreadpages = calc_handspreadpages(ci, fs, T)
        /\ pscan_region_sz = T
        /\ des_page_scanners = 1 /\ n_page_scanners = 1
        /\ reset_hands = [i \in 0..(MAX_PSCAN_THREADS - 1) |-> i = 0]

CalInit0 ==
    /\ pageout_new_spread = 0 /\ pageout_sample_cnt = 0
    /\ pageout_sample_pages = 0 /\ pageout_sample_etime = 0
    /\ pageout_rate = 0

PoolInit0 ==
    /\ des_page_scanners = 0
    /\ n_page_scanners = 0
    /\ reset_hands = [i \in 0..(MAX_PSCAN_THREADS - 1) |-> FALSE]

ScanInit0(resetcnt) ==
    /\ pageout_reset_cnt = resetcnt
    /\ scanners = <<>>

EnvInit0 ==
    /\ freemem = total_pages /\ needfree = 0 /\ deficit = 0
    /\ zone_num_over_cap = 0 /\ dopageout = TRUE

SchedInit0 ==
    /\ nscan = 0 /\ desscan = 0 /\ pageout_nsec = 0
    /\ zones_over = FALSE /\ po_share = MIN_PO_SHARE
    /\ min_pageout_nsec = 0 /\ max_pageout_nsec = 0
    /\ zone_pageout_nsec = 0 /\ pageout_timeouts = 0

\* the vnodes dirty pages belong to
Vnodes == {1, 2}

QueueInit0(n) ==
    /\ async_list_size = n
    /\ req_freelist = <<>> /\ push_list = <<>> /\ push_list_size = 0
    /\ pushes = 0 /\ max_pushes = 0
    /\ a_vp = [i \in 1..n |-> 0]
    /\ master = [pc |-> "start", arg |-> 0]
    /\ v_count = [v \in Vnodes |-> 0]

\* k threads that may be inside checkpage
CkpInit0(k) ==
    ckp = [c \in 1..k |-> [pc |-> "idle", vp |-> 0, rv |-> 1, result |-> "none"]]

DeadmanInit0(secs) ==
    /\ pageout_deadman_seconds = secs
    /\ pageout_stucktime = 0 /\ pageout_pushing = FALSE
    /\ pageout_pushcount = 0 /\ pageout_pushcount_seen = 0
    /\ panicstr = FALSE
    /\ dm = [pc |-> "idle", cnt |-> 0]
    /\ dm_obs = <<>> /\ dm_panic_tick = 0 /\ push_ticks = 0

(* ------------------------------------------------------------------ *)
(* The threshold calculator on its own: the operator patches tunables  *)
(* before boot, the first setupclock call snapshots them, and later    *)
(* calls recalculate (calibration finished, memory reconfigured).      *)
(* ------------------------------------------------------------------ *)
TValues == {2, 3000, 262144, 536870912}
PatchValues == {1800, 300000}
Tunables == {"lotsfree_min", "lotsfree_max", "lotsfree", "desfree", "minfree",
             "throttlefree", "pageout_reserve", "maxpgio", "maxfastscan",
             "fastscan", "slowscan", "handspreadpages"}
SamplePages == {3, 400000}
SampleEtimes == {200000000}

InitTune ==
    /\ \E T \in TValues, style \in {0, 1} : ClockInit0(T, style)
    /\ CalInit0 /\ PoolInit0 /\ ScanInit0(64) /\ EnvInit0 /\ SchedInit0
    /\ QueueInit0(1) /\ CkpInit0(1) /\ DeadmanInit0(90)
    /\ phase = "preboot" /\ npatch = 0 /\ last = "init"

Patched(name, v, old) == IF name THEN v ELSE old

TunableValue(name) ==
    CASE name = "lotsfree_min" -> lotsfree_min
      [] name = "lotsfree_max" -> lotsfree_max
      [] name = "lotsfree" -> lotsfree
      [] name = "desfree" -> desfree
      [] name = "minfree" -> minfree
      [] name = "throttlefree" -> throttlefree
      [] name = "pageout_reserve" -> pageout_reserve
      [] name = "maxpgio" -> maxpgio
      [] name = "maxfastscan" -> maxfastscan
      [] name = "fastscan" -> fastscan
      [] name = "slowscan" -> slowscan
      [] name = "handspreadpages" -> handspreadpages

\* the operator sets one tunable in /etc/system (a value patched before boot)
OperatorPatch(name, v) ==
    /\ phase = "preboot"
    /\ npatch < MaxPatches
    /\ TunableValue(name) = 0
    /\ lotsfree_min' = Patched(name = "lotsfree_min", v, lotsfree_min)
    /\ lotsfree_max' = Patched(name = "lotsfree_max", v, lotsfree_max)
    /\ lotsfree' = Patched(name = "lotsfree", v, lotsfree)
    /\ desfree' = Patched(name = "desfree", v, desfree)
    /\ minfree' = Patched(name = "minfree", v, minfree)
    /\ throttlefree' = Patched(name = "throttlefree", v, throttlefree)
    /\ pageout_reserve' = Patched(name = "pageout_reserve", v, pageout_reserve)
    /\ maxpgio' = Patched(name = "maxpgio", v, maxpgio)
    /\ maxfastscan' = Patched(name = "maxfastscan", v, maxfastscan)
    /\ fastscan' = Patched(name = "fastscan", v, fastscan)
    /\ slowscan' = Patched(name = "slowscan", v, slowscan)
    /\ handspreadpages' = Patched(name = "handspreadpages", v, handspreadpages)
    /\ npatch' = npatch + 1
    /\ last' = "OperatorPatch"
    /\ UNCHANGED <<total_pages, looppages, pageout_threshold_style, clockinit,
                   pscan_region_sz, phase>>
    /\ UNCHANGED <<calvars, poolvars, scanvars, envvars, schedvars, nsecvars,
                   queuevars, ckp, pushvars, push_ticks, dmvars>>

\* the first setupclock call, made at startup
Boot ==
    /\ phase = "preboot"
    /\ setupclock(total_pages, pageout_new_spread)
    /\ phase' = "booted"
    /\ last' = "Boot"
    /\ UNCHANGED <<total_pages, npatch>>
    /\ UNCHANGED <<calvars, scanvars, envvars, schedvars, nsecvars,
                   queuevars, ckp, pushvars, push_ticks, dmvars>>

\* the spread taken as the whole rate
set_spread_rate(pages, etime) ==
    LET rate == MulDiv(pages, NANOSEC, etime)
    IN  /\ pageout_rate' = rate
        /\ pageout_new_spread' = rate
        /\ setupclock(total_pages, rate)

\* the end of sampling: the spread is set from the sample totals and the
\* thresholds are recalculated
set_spread(pages, etime) ==
    LET rate == MulDiv(pages, NANOSEC, etime)
    IN  /\ pageout_rate' = rate
        /\ pageout_new_spread' = rate \div 10
        /\ setupclock(total_pages, rate \div 10)

\* worker 0 has taken its pageout_sample_lim samples, totalling pages and
\* etime, and finishes the calibration
CalibrationEnd(pages, etime) ==
    /\ phase = "booted"
    /\ pageout_new_spread = 0
    /\ pageout_sample_cnt' = pageout_sample_lim
    /\ pageout_sample_pages' = pages
    /\ pageout_sample_etime' = etime
    /\ set_spread(pages, etime)
    /\ last' = "CalibrationEnd"
    /\ UNCHANGED <<total_pages, phase, npatch>>
    /\ UNCHANGED <<scanvars, envvars, schedvars, nsecvars,
                   queuevars, ckp, pushvars, push_ticks, dmvars>>

\* memory dynamic reconfiguration: total_pages changes and setupclock is
\* called to recalculate
MemoryDR(T) ==
    /\ phase = "booted"
    /\ T # total_pages
    /\ total_pages' = T
    /\ setupclock(T, pageout_new_spread)
    /\ last' = "MemoryDR"
    /\ UNCHANGED <<phase, npatch>>
    /\ UNCHANGED <<calvars, scanvars, envvars, schedvars, nsecvars,
                   queuevars, ckp, pushvars, push_ticks, dmvars>>

\* setupclock is called again while total_pages, the spread and the style
\* are what they were at the previous call
SetupclockAgain ==
    /\ phase = "booted"
    /\ setupclock(total_pages, pageout_new_spread)
    /\ last' = "SetupclockAgain"
    /\ UNCHANGED <<total_pages, phase, npatch>>
    /\ UNCHANGED <<calvars, scanvars, envvars, schedvars, nsecvars,
                   queuevars, ckp, pushvars, push_ticks, dmvars>>

NextTune ==
    \/ \E name \in Tunables, v \in PatchValues : OperatorPatch(name, v)
    \/ Boot
    \/ SetupclockAgain
    \/ \E pages \in SamplePages, etime \in SampleEtimes :
           CalibrationEnd(pages, etime)
    \/ \E T \in TValues : MemoryDR(T)

SpecTune == InitTune /\ [][NextTune]_vars

\* a machine at least as large as the default floor of lotsfree (16 MB)
LegalT == total_pages >= btop(LOTSFREE_MIN_DEFAULT)

(* C1: after every setupclock call pageout_reserve <= throttlefree <=     *)
(* minfree <= desfree <= lotsfree <= total_pages, for every total_pages   *)
(* and every combination of operator overrides.                           *)
C1_ThresholdChain ==
    (clockinit.ci_init /\ LegalT) =>
        /\ pageout_reserve <= throttlefree
        /\ throttlefree <= minfree
        /\ minfree <= desfree
        /\ desfree <= lotsfree
        /\ lotsfree <= total_pages

(* C2: after every setupclock call slowscan <= fastscan/2, fastscan/2 <=  *)
(* total_pages/4 and 1 <= handspreadpages < total_pages, for every        *)
(* pageout_new_spread and every override of the scan tunables.            *)
C2_ScanRates ==
    clockinit.ci_init =>
        /\ slowscan <= fastscan \div 2
        /\ fastscan \div 2 <= total_pages \div 4
        /\ 1 <= handspreadpages
        /\ handspreadpages < total_pages

C2_Witness ==
    /\ last = "CalibrationEnd"
    /\ pageout_new_spread # 0
    /\ clockinit.ci_fastscan # 0
    /\ clockinit.ci_handspreadpages # 0

(* ------------------------------------------------------------------ *)
(* The writeback queue: queue_io_request, the pageout master and the   *)
(* dirty hand-off of checkpage.  push_lock sections are single steps,  *)
(* except the master's completion, whose two stores the deadman reads  *)
(* without the lock.                                                  *)
(* ------------------------------------------------------------------ *)
\* the system runs until the deadman panics it
Running == dm_panic_tick = 0

\* push_lock is free (the master is not between its two completion stores)
PushLockFree == master.pc # "done2"

\* cv_signal(&push_cv): wakes the master when it waits, else has no effect
cv_signal_push(m) == IF m.pc = "wait" THEN [m EXCEPT !.pc = "woken"] ELSE m

\* the state after pageout() has built the request pool: every slot on the
\* freelist, in array order
PoolBuilt(n, pgio, vnodes) ==
    /\ async_list_size = n
    /\ req_freelist = [i \in 1..n |-> i]
    /\ push_list = <<>> /\ push_list_size = 0
    /\ pushes = 0
    /\ max_pushes = pgio \div SCHEDPAGING_HZ
    /\ a_vp = [i \in 1..n |-> 0]
    /\ master = [pc |-> "lock", arg |-> 0]
    /\ v_count = [v \in vnodes |-> 0]

\* queue_io_request without taking the slot off the freelist
queue_io_request_nopop(c) ==
    IF req_freelist = <<>>
    THEN /\ ckp' = [ckp EXCEPT ![c].rv = 0, ![c].pc = "ret"]
         /\ UNCHANGED <<req_freelist, push_list, push_list_size, a_vp, master>>
    ELSE LET arg == Head(req_freelist)
         IN  /\ req_freelist' = req_freelist
             /\ push_list_size' = push_list_size + 1
             /\ a_vp' = [a_vp EXCEPT ![arg] = ckp[c].vp]
             /\ push_list' = <<arg>> \o push_list
             /\ master' = master
             /\ ckp' = [ckp EXCEPT ![c].rv = 1, ![c].pc = "ret"]

\* queue_io_request adding the request at the tail of the pending list
queue_io_request_tail(c) ==
    IF req_freelist = <<>>
    THEN /\ ckp' = [ckp EXCEPT ![c].rv = 0, ![c].pc = "ret"]
         /\ UNCHANGED <<req_freelist, push_list, push_list_size, a_vp, master>>
    ELSE LET arg == Head(req_freelist)
         IN  /\ req_freelist' = Tail(req_freelist)
             /\ push_list_size' = push_list_size + 1
             /\ a_vp' = [a_vp EXCEPT ![arg] = ckp[c].vp]
             /\ push_list' = Append(push_list, arg)
             /\ master' = IF Tail(req_freelist) = <<>>
                          THEN cv_signal_push(master) ELSE master
             /\ ckp' = [ckp EXCEPT ![c].rv = 1, ![c].pc = "ret"]

\* queue_io_request(vp, off), called by checkpage invocation c
queue_io_request(c) ==
    IF req_freelist = <<>>
    THEN /\ ckp' = [ckp EXCEPT ![c].rv = 0, ![c].pc = "ret"]
         /\ UNCHANGED <<req_freelist, push_list, push_list_size, a_vp, master>>
    ELSE LET arg == Head(req_freelist)
         IN  /\ req_freelist' = Tail(req_freelist)
             /\ push_list_size' = push_list_size + 1
             /\ a_vp' = [a_vp EXCEPT ![arg] = ckp[c].vp]
             /\ push_list' = <<arg>> \o push_list
             /\ master' = IF Tail(req_freelist) = <<>>
                          THEN cv_signal_push(master) ELSE master
             /\ ckp' = [ckp EXCEPT ![c].rv = 1, ![c].pc = "ret"]

\* checkpage on a dirty page that has a vnode: VN_HOLD(vp); page_unlock(pp)
CkpEnter(c) ==
    /\ Running
    /\ ckp[c].pc = "idle"
    /\ \E v \in DOMAIN v_count :
            /\ v_count' = [v_count EXCEPT ![v] = @ + 1]
            /\ ckp' = [ckp EXCEPT ![c].pc = "queue", ![c].vp = v,
                                  ![c].result = "none"]
    /\ last' = "CkpEnter"
    /\ UNCHANGED <<async_list_size, req_freelist, push_list, push_list_size,
                   pushes, max_pushes, a_vp, master>>
    /\ UNCHANGED <<clockvars, calvars, poolvars, scanvars, envvars, schedvars,
                   nsecvars, pushvars, push_ticks, dmvars, bookvars>>

CkpQueue(c) ==
    /\ Running
    /\ ckp[c].pc = "queue"
    /\ PushLockFree
    /\ queue_io_request(c)
    /\ last' = "CkpQueue"
    /\ UNCHANGED <<async_list_size, pushes, max_pushes, v_count>>
    /\ UNCHANGED <<clockvars, calvars, poolvars, scanvars, envvars, schedvars,
                   nsecvars, pushvars, push_ticks, dmvars, bookvars>>

\* the return of checkpage that forgets VN_RELE when the queue was full
ckp_return_norele(c) ==
    /\ ckp' = [ckp EXCEPT ![c].pc = "idle", ![c].vp = 0,
                 ![c].result = IF ckp[c].rv = 0 THEN "CKP_NOT_FREED"
                               ELSE "CKP_FREED"]
    /\ v_count' = v_count

\* if (!queue_io_request(vp, offset)) { VN_RELE(vp); return (CKP_NOT_FREED); }
\* ... return (CKP_FREED);
ckp_return(c) ==
    IF ckp[c].rv = 0
    THEN /\ v_count' = [v_count EXCEPT ![ckp[c].vp] = @ - 1]
         /\ ckp' = [ckp EXCEPT ![c].pc = "idle", ![c].vp = 0,
                           ![c].result = "CKP_NOT_FREED"]
    ELSE /\ v_count' = v_count
         /\ ckp' = [ckp EXCEPT ![c].pc = "idle", ![c].vp = 0,
                           ![c].result = "CKP_FREED"]

CkpReturn(c) ==
    /\ Running
    /\ ckp[c].pc = "ret"
    /\ ckp_return(c)
    /\ last' = "CkpReturn"
    /\ UNCHANGED <<async_list_size, req_freelist, push_list, push_list_size,
                   pushes, max_pushes, a_vp, master>>
    /\ UNCHANGED <<clockvars, calvars, poolvars, scanvars, envvars, schedvars,
                   nsecvars, pushvars, push_ticks, dmvars, bookvars>>

\* cv_signal_pageout(), called by the scheduler and by the scanners
CvSignalPageout ==
    /\ Running
    /\ push_list # <<>>
    /\ PushLockFree
    /\ master.pc = "wait"
    /\ master' = cv_signal_push(master)
    /\ last' = "CvSignalPageout"
    /\ UNCHANGED <<async_list_size, req_freelist, push_list, push_list_size,
                   pushes, max_pushes, a_vp, v_count>>
    /\ UNCHANGED <<clockvars, calvars, poolvars, scanvars, envvars, schedvars,
                   nsecvars, ckp, pushvars, push_ticks, dmvars, bookvars>>

\* the while condition letting one more push through before the wait
master_waits_late(list, p, mx) == list = <<>> \/ p > mx + 1

\* while ((arg = push_list) == NULL || pushes > max_pushes)
master_waits(list, p, mx) == list = <<>> \/ p > mx

\* the master, holding push_lock, tests the while condition: it waits, or
\* takes the head of the pending list and marks the push in flight
MasterCheck ==
    /\ Running
    /\ master.pc = "lock"
    /\ IF master_waits(push_list, pushes, max_pushes)
       THEN /\ master' = [master EXCEPT !.pc = "wait"]
            /\ UNCHANGED <<push_list, pageout_pushing, push_ticks>>
       ELSE /\ master' = [pc |-> "putpage", arg |-> Head(push_list)]
            /\ push_list' = Tail(push_list)
            /\ pageout_pushing' = TRUE
            /\ push_ticks' = 0
    /\ last' = "MasterCheck"
    /\ UNCHANGED <<async_list_size, req_freelist, push_list_size, pushes,
                   max_pushes, a_vp, v_count, pageout_pushcount>>
    /\ UNCHANGED <<clockvars, calvars, poolvars, scanvars, envvars, schedvars,
                   nsecvars, ckp, dmvars, bookvars>>

\* cv_wait returns: pushes = 0, and the while condition is tested again
MasterWoken ==
    /\ Running
    /\ master.pc = "woken"
    /\ master' = [master EXCEPT !.pc = "lock"]
    /\ pushes' = 0
    /\ last' = "MasterWoken"
    /\ UNCHANGED <<async_list_size, req_freelist, push_list, push_list_size,
                   max_pushes, a_vp, v_count>>
    /\ UNCHANGED <<clockvars, calvars, poolvars, scanvars, envvars, schedvars,
                   nsecvars, ckp, pushvars, push_ticks, dmvars, bookvars>>

\* VOP_PUTPAGE returns, with success (pushes++) or with an error
MasterPutpage(ok) ==
    /\ Running
    /\ master.pc = "putpage"
    /\ pushes' = IF ok THEN pushes + 1 ELSE pushes
    /\ master' = [master EXCEPT !.pc = "rele"]
    /\ last' = "MasterPutpage"
    /\ UNCHANGED <<async_list_size, req_freelist, push_list, push_list_size,
                   max_pushes, a_vp, v_count>>
    /\ UNCHANGED <<clockvars, calvars, poolvars, scanvars, envvars, schedvars,
                   nsecvars, ckp, pushvars, push_ticks, dmvars, bookvars>>

\* the master keeping the hold of the request it pushed
master_rele_leak == v_count

\* VN_RELE(arg->a_vp): the hold taken by checkpage
master_rele == [v_count EXCEPT ![a_vp[master.arg]] = @ - 1]

MasterRele ==
    /\ Running
    /\ master.pc = "rele"
    /\ v_count' = master_rele
    /\ master' = [master EXCEPT !.pc = "done"]
    /\ last' = "MasterRele"
    /\ UNCHANGED <<async_list_size, req_freelist, push_list, push_list_size,
                   pushes, max_pushes, a_vp>>
    /\ UNCHANGED <<clockvars, calvars, poolvars, scanvars, envvars, schedvars,
                   nsecvars, ckp, pushvars, push_ticks, dmvars, bookvars>>

\* mutex_enter(&push_lock); pageout_pushing = false;
MasterDone ==
    /\ Running
    /\ master.pc = "done"
    /\ pageout_pushing' = FALSE
    /\ master' = [master EXCEPT !.pc = "done2"]
    /\ last' = "MasterDone"
    /\ UNCHANGED <<async_list_size, req_freelist, push_list, push_list_size,
                   pushes, max_pushes, a_vp, v_count, pageout_pushcount>>
    /\ UNCHANGED <<clockvars, calvars, poolvars, scanvars, envvars, schedvars,
                   nsecvars, ckp, push_ticks, dmvars, bookvars>>

\* a completion that does not count the push
push_completed_nocount == pageout_pushcount

\* pageout_pushcount++
push_completed == pageout_pushcount + 1

\* pageout_pushcount++; the slot goes back on the freelist; push_list_size--
MasterFree ==
    /\ Running
    /\ master.pc = "done2"
    /\ pageout_pushcount < MaxPushCount
    /\ pageout_pushcount' = push_completed
    /\ req_freelist' = <<master.arg>> \o req_freelist
    /\ push_list_size' = push_list_size - 1
    /\ master' = [pc |-> "lock", arg |-> 0]
    /\ last' = "MasterFree"
    /\ UNCHANGED <<async_list_size, push_list, pushes, max_pushes, a_vp,
                   v_count, pageout_pushing>>
    /\ UNCHANGED <<clockvars, calvars, poolvars, scanvars, envvars, schedvars,
                   nsecvars, ckp, push_ticks, dmvars, bookvars>>

MasterStep ==
    \/ MasterCheck
    \/ MasterWoken
    \/ \E ok \in BOOLEAN : MasterPutpage(ok)
    \/ MasterRele
    \/ MasterDone
    \/ MasterFree

InitPush ==
    /\ ClockBooted(262144, 4, 0)
    /\ CalInit0 /\ ScanInit0(64) /\ EnvInit0 /\ SchedInit0
    /\ \E n \in 1..MaxAsync : PoolBuilt(n, maxpgio, Vnodes)
    /\ CkpInit0(2) /\ DeadmanInit0(90)
    /\ phase = "running" /\ npatch = 0 /\ last = "init"

NextPush ==
    \/ \E c \in DOMAIN ckp : CkpEnter(c)
    \/ \E c \in DOMAIN ckp : CkpQueue(c)
    \/ \E c \in DOMAIN ckp : CkpReturn(c)
    \/ CvSignalPageout
    \/ MasterStep

SpecPush == InitPush /\ [][NextPush]_vars

\* the slots on a list, and the requests a vnode has on the pending list
Slots(list) == {list[i] : i \in 1..Len(list)}
PendingFor(v) == Cardinality({i \in 1..Len(push_list) : a_vp[push_list[i]] = v})
InFlight == IF master.arg # 0 THEN 1 ELSE 0

(* C3: freelist length + pending length + the request in flight (0 or 1)  *)
(* equals async_list_size, the pending length never exceeds it, and no     *)
(* slot is on both lists or twice on one.                                  *)
C3_SlotConservation ==
    /\ Len(req_freelist) + Len(push_list) + InFlight = async_list_size
    /\ Len(push_list) <= async_list_size
    /\ Cardinality(Slots(req_freelist)) = Len(req_freelist)
    /\ Cardinality(Slots(push_list)) = Len(push_list)
    /\ Slots(req_freelist) \cap Slots(push_list) = {}
    /\ master.arg \notin (Slots(req_freelist) \cup Slots(push_list))

C3_Witness ==
    /\ async_list_size = MaxAsync
    /\ req_freelist = <<>>
    /\ Len(push_list) = MaxAsync - 1
    /\ master.pc = "putpage"

(* C4: queue_io_request returns 0 exactly when the freelist is empty     *)
(* when it holds push_lock, and then leaves the freelist, the pending     *)
(* list and push_list_size unchanged; checkpage then releases the vnode   *)
(* hold and returns CKP_NOT_FREED.  When async_list_size requests were    *)
(* enqueued and none completed, the next call returns 0.                  *)
C4_QueueFull ==
    [][\A c \in DOMAIN ckp :
         /\ (ckp[c].pc = "queue" /\ ckp'[c].pc = "ret") =>
              /\ (ckp'[c].rv = 0) <=> (req_freelist = <<>>)
              /\ (ckp'[c].rv = 0) =>
                    UNCHANGED <<req_freelist, push_list, push_list_size>>
              /\ (push_list_size = async_list_size) => (ckp'[c].rv = 0)
         /\ (ckp[c].pc = "ret" /\ ckp[c].rv = 0 /\ ckp'[c].pc = "idle") =>
              /\ v_count'[ckp[c].vp] = v_count[ckp[c].vp] - 1
              /\ ckp'[c].result = "CKP_NOT_FREED"]_vars

C4_Witness ==
    \E c \in DOMAIN ckp :
        /\ last = "CkpReturn"
        /\ ckp[c].pc = "idle" /\ ckp[c].result = "CKP_NOT_FREED"
        /\ push_list_size = async_list_size

\* checkpage invocations that hold a vnode they have not yet handed to an
\* accepted request nor released
InTransit(v) ==
    Cardinality({c \in DOMAIN ckp :
        /\ ckp[c].vp = v
        /\ \/ ckp[c].pc = "queue"
           \/ ckp[c].pc = "ret" /\ ckp[c].rv = 0})

\* the request the master took off the pending list and has not yet released
Dispatched(v) ==
    IF master.pc \in {"putpage", "rele"} /\ a_vp[master.arg] = v THEN 1 ELSE 0

\* the request in flight, up to the master's completion
InFlightFor(v) ==
    IF master.arg # 0 /\ a_vp[master.arg] = v THEN 1 ELSE 0

(* C5 as stated: at every state the holds outstanding on a vnode equal    *)
(* its requests that are pending or in flight.                            *)
C5_HoldsEqualRequests ==
    \A v \in DOMAIN v_count : v_count[v] = PendingFor(v) + InFlightFor(v)

(* C5: every hold taken by checkpage is released exactly once, by         *)
(* checkpage when queue_io_request returned 0, otherwise by the master    *)
(* after put_page returned: the holds outstanding on a vnode equal its    *)
(* pending requests, plus the request dispatched and not yet released,    *)
(* plus the checkpage calls between VN_HOLD and the hand-off or release.  *)
C5_HoldsAccounted ==
    \A v \in DOMAIN v_count :
        v_count[v] = PendingFor(v) + Dispatched(v) + InTransit(v)

C5_Witness ==
    /\ last = "MasterRele"
    /\ \E c \in DOMAIN ckp : ckp[c].pc = "idle" /\ ckp[c].result = "CKP_NOT_FREED"
    /\ \E v \in Vnodes : v_count[v] = 0 /\ a_vp[master.arg] = v

(* ------------------------------------------------------------------ *)
(* The deadman: pageout_deadman() runs once per second from clock()    *)
(* and reads the master's two variables without push_lock, so a tick   *)
(* is a sequence of steps, one per shared read.  dm_obs records what   *)
(* each finished tick read; push_ticks counts the ticks that read      *)
(* pageout_pushing as true during the push now in flight.              *)
(* ------------------------------------------------------------------ *)
SysUnchangedByDeadman ==
    /\ UNCHANGED <<clockvars, calvars, poolvars, scanvars, envvars, schedvars,
                   nsecvars, queuevars, ckp, pushvars, bookvars>>
    /\ UNCHANGED pageout_deadman_seconds

\* the deadman with the test for a zero pageout_deadman_seconds left out
deadman_enabled_always == TRUE

\* if (pageout_deadman_seconds == 0) return;
deadman_enabled == pageout_deadman_seconds # 0

\* what a tick read: skip (returned at once), pushing (pageout_pushing),
\* count (pageout_pushcount, -1 when not read), seen (pageout_pushcount_seen)
Obs(skip, pushing, count) ==
    [skip |-> skip, pushing |-> pushing, count |-> count,
     seen |-> pageout_pushcount_seen]

\* entry of pageout_deadman: the panicstr and enable tests, and the read of
\* pageout_pushing
DmTick ==
    /\ Running
    /\ dm.pc = "idle"
    /\ Len(dm_obs) < MaxTicks
    /\ IF panicstr \/ ~deadman_enabled
       THEN /\ dm_obs' = Append(dm_obs, Obs(TRUE, FALSE, -1))
            /\ UNCHANGED <<dm, push_ticks>>
       ELSE IF ~pageout_pushing
       THEN /\ dm' = [dm EXCEPT !.pc = "reset", !.cnt = -1]
            /\ push_ticks' = 0
            /\ UNCHANGED dm_obs
       ELSE /\ dm' = [dm EXCEPT !.pc = "cmp"]
            /\ push_ticks' = push_ticks + 1
            /\ UNCHANGED dm_obs
    /\ last' = "DmTick"
    /\ UNCHANGED <<pageout_stucktime, pageout_pushcount_seen, panicstr,
                   dm_panic_tick>>
    /\ SysUnchangedByDeadman

\* if (pageout_pushcount != pageout_pushcount_seen) goto reset;
\* if (++pageout_stucktime >= pageout_deadman_seconds) panic(...);
DmCompare ==
    /\ Running
    /\ dm.pc = "cmp"
    /\ IF pageout_pushcount # pageout_pushcount_seen
       THEN /\ dm' = [dm EXCEPT !.pc = "reset", !.cnt = pageout_pushcount]
            /\ UNCHANGED <<pageout_stucktime, panicstr, dm_panic_tick, dm_obs>>
       ELSE /\ pageout_stucktime' = pageout_stucktime + 1
            /\ dm_obs' = Append(dm_obs, Obs(FALSE, TRUE, pageout_pushcount))
            /\ dm' = [dm EXCEPT !.pc = "idle"]
            /\ IF pageout_stucktime + 1 >= pageout_deadman_seconds
               THEN panicstr' = TRUE /\ dm_panic_tick' = Len(dm_obs) + 1
               ELSE UNCHANGED <<panicstr, dm_panic_tick>>
    /\ last' = "DmCompare"
    /\ UNCHANGED <<pageout_pushcount_seen, push_ticks>>
    /\ SysUnchangedByDeadman

\* a reset that leaves the stuck counter as it is
deadman_reset_stucktime_kept == pageout_stucktime

\* reset: pageout_stucktime = 0;
deadman_reset_stucktime == 0

\* reset: pageout_stucktime = 0; pageout_pushcount_seen = pageout_pushcount;
DmReset ==
    /\ Running
    /\ dm.pc = "reset"
    /\ pageout_stucktime' = deadman_reset_stucktime
    /\ pageout_pushcount_seen' = pageout_pushcount
    /\ dm_obs' = Append(dm_obs, Obs(FALSE, dm.cnt # -1, dm.cnt))
    /\ dm' = [dm EXCEPT !.pc = "idle"]
    /\ last' = "DmReset"
    /\ UNCHANGED <<panicstr, dm_panic_tick, push_ticks>>
    /\ SysUnchangedByDeadman

\* some other part of the kernel panics: panicstr is set
ExternalPanic ==
    /\ Running
    /\ ~panicstr
    /\ dm.pc = "idle"
    /\ panicstr' = TRUE
    /\ last' = "ExternalPanic"
    /\ UNCHANGED <<pageout_stucktime, pageout_pushcount_seen, dm, dm_obs,
                   dm_panic_tick, push_ticks>>
    /\ SysUnchangedByDeadman

InitDeadman ==
    /\ ClockBooted(262144, 4, 0)
    /\ CalInit0 /\ ScanInit0(64) /\ EnvInit0 /\ SchedInit0
    /\ PoolBuilt(1, maxpgio, {1})
    /\ CkpInit0(1)
    /\ \E secs \in 0..MaxDeadman : DeadmanInit0(secs)
    /\ phase = "running" /\ npatch = 0 /\ last = "init"

NextDeadman ==
    \/ \E c \in DOMAIN ckp : CkpEnter(c)
    \/ \E c \in DOMAIN ckp : CkpQueue(c)
    \/ \E c \in DOMAIN ckp : CkpReturn(c)
    \/ CvSignalPageout
    \/ MasterStep
    \/ DmTick
    \/ DmCompare
    \/ DmReset
    \/ ExternalPanic

SpecDeadman == InitDeadman /\ [][NextDeadman]_vars

\* tick j found a push in flight with the push count it last recorded
StuckTick(j) ==
    /\ ~dm_obs[j].skip
    /\ dm_obs[j].pushing
    /\ dm_obs[j].count = dm_obs[j].seen

StuckRun(i, D) == i >= D /\ \A j \in (i - D + 1)..i : StuckTick(j)

(* C6: with D = pageout_deadman_seconds > 0 the deadman panics at a tick  *)
(* exactly when that tick completes D consecutive ticks that each found   *)
(* the in-flight flag true and the push count equal to the recorded one;  *)
(* with the flag true and the count constant from the start the panic is  *)
(* at tick D; a tick that finds no push or another count resets.          *)
C6_PanicAfterDStuckTicks ==
    LET D == pageout_deadman_seconds
    IN  /\ D > 0 =>
            \A i \in 1..Len(dm_obs) : (dm_panic_tick = i) <=> StuckRun(i, D)
        /\ (D > 0 /\ Len(dm_obs) >= D
              /\ \A j \in 1..D : ~dm_obs[j].skip /\ dm_obs[j].pushing
                                   /\ dm_obs[j].count = 0)
             => dm_panic_tick = D
        /\ (dm.pc = "idle" /\ dm_obs # <<>> /\ ~dm_obs[Len(dm_obs)].skip
              /\ ~StuckTick(Len(dm_obs)))
             => pageout_stucktime = 0 /\ dm_panic_tick # Len(dm_obs)

C6_Witness ==
    /\ pageout_deadman_seconds >= 2
    /\ dm_panic_tick > pageout_deadman_seconds
    /\ \E j \in 1..dm_panic_tick : dm_obs[j].pushing /\ ~StuckTick(j)

(* C7: a deadman panic implies that one single put_page call was found    *)
(* in flight, without completing, by at least D consecutive ticks,        *)
(* however the ticks interleave with the master.                          *)
C7_PanicMeansOneStuckPush ==
    dm_panic_tick # 0 =>
        /\ push_ticks >= pageout_deadman_seconds
        /\ master.arg # 0
        /\ pageout_pushcount = dm_obs[dm_panic_tick].count

C7_Witness ==
    /\ dm_panic_tick # 0
    /\ pageout_deadman_seconds >= 2
    /\ pageout_pushcount >= 1
    /\ ~pageout_pushing

(* C8: with pageout_deadman_seconds = 0, or with the system already       *)
(* panicking, a tick returns at once: it never panics and leaves the      *)
(* stuck counter and the recorded push count unchanged, whatever the      *)
(* state of the master.                                                   *)
C8_DisabledTick ==
    [][(dm.pc = "idle" /\ (dm' # dm \/ dm_obs' # dm_obs)
          /\ (pageout_deadman_seconds = 0 \/ panicstr))
        => /\ dm'.pc = "idle"
           /\ UNCHANGED <<pageout_stucktime, pageout_pushcount_seen,
                          panicstr, dm_panic_tick>>]_vars

C8_Witness ==
    /\ last = "DmTick"
    /\ dm_obs # <<>> /\ dm_obs[Len(dm_obs)].skip
    /\ pageout_deadman_seconds = 0
    /\ ~panicstr
    /\ pageout_pushing /\ pageout_pushcount >= 1 /\ Len(dm_obs) >= 2

(* ------------------------------------------------------------------ *)
(* The scheduler tick schedpaging() and the scanner pool.              *)
(* ------------------------------------------------------------------ *)
PAGE_SCAN_STARTUP == pageout_sample_cnt < pageout_sample_lim

\* min_pageout_nsec and max_pageout_nsec as pageout_scanner sets them
calc_min_pageout_nsec ==
    MAX(1, MulDiv(NANOSEC, min_percent_cpu, 100) \div SCHEDPAGING_HZ)
calc_max_pageout_nsec ==
    MAX(calc_min_pageout_nsec,
        MulDiv(NANOSEC, max_percent_cpu, 100) \div SCHEDPAGING_HZ)

\* a scanner thread as lwp_kernel_create starts it; its hands are not set.
\* offset is the local of the reset block and cycle_nsec the local
\* pageout_cycle_nsec of the budget poll; they are kept where the reset and
\* the poll are steps of their own, and are 0 elsewhere.  rvfront and
\* rvback are the locals of the loop body, "none" outside the loop
NewScanner(i) ==
    [inst |-> i, pc |-> "start", fronthand |-> -1, backhand |-> -1,
     count |-> 0, iter |-> 0, pcount |-> 0, nscan_cnt |-> 0,
     nscan_limit |-> 0, offset |-> 0, cycle_nsec |-> 0,
     rvfront |-> "none", rvback |-> "none"]

\* scanner 0 after its first pass to cv_wait
FirstScanner == [NewScanner(0) EXCEPT !.pc = "wait"]

\* the state in which pageout() makes the first call schedpaging(NULL)
SchedBooted ==
    /\ nscan = 0 /\ desscan = 0 /\ pageout_nsec = 0
    /\ zones_over = FALSE /\ po_share = MIN_PO_SHARE
    /\ min_pageout_nsec = calc_min_pageout_nsec
    /\ max_pageout_nsec = calc_max_pageout_nsec
    /\ zone_pageout_nsec = 0 /\ pageout_timeouts = 0
    /\ scanners = <<FirstScanner>>

\* vavail with needfree subtracted before calibration too
sched_vavail_needfree(f) ==
    LET v1 == f - deficit - needfree
        v2 == IF v1 < 0 THEN 0 ELSE v1
    IN  IF v2 > lotsfree THEN lotsfree ELSE v2

\* vavail as a tick computes it when freemem is f
sched_vavail_at(f) ==
    LET v0 == f - deficit
        v1 == IF pageout_new_spread # 0 THEN v0 - needfree ELSE v0
        v2 == IF v1 < 0 THEN 0 ELSE v1
    IN  IF v2 > lotsfree THEN lotsfree ELSE v2

sched_vavail == sched_vavail_at(freemem)

\* the page budget without the division by the tick rate
sched_desscan_nohz(vavail) ==
    IF needfree > 0 /\ pageout_new_spread = 0
    THEN fastscan
    ELSE MulAddDiv(slowscan, vavail, fastscan, lotsfree - vavail,
                   nz(lotsfree))

sched_desscan(vavail) ==
    IF needfree > 0 /\ pageout_new_spread = 0
    THEN fastscan \div SCHEDPAGING_HZ
    ELSE MulAddDiv(slowscan, vavail, fastscan, lotsfree - vavail,
                   nz(lotsfree)) \div SCHEDPAGING_HZ

\* the CPU budget interpolated over max instead of max - min
sched_pageout_nsec_nospan(vavail) ==
    IF pageout_new_spread = 0
    THEN max_pageout_nsec
    ELSE min_pageout_nsec +
         MulDiv(lotsfree - vavail, max_pageout_nsec, nz(lotsfree))

sched_pageout_nsec(vavail) ==
    IF pageout_new_spread = 0
    THEN max_pageout_nsec
    ELSE min_pageout_nsec +
         MulDiv(lotsfree - vavail, max_pageout_nsec - min_pageout_nsec,
                nz(lotsfree))

\* the desired count without the limit total_pages / handspreadpages
sched_des_nomax ==
    IF des_page_scanners > MAX_PSCAN_THREADS THEN MAX_PSCAN_THREADS
    ELSE IF des_page_scanners = 0 THEN 1
    ELSE des_page_scanners

\* the desired count as schedpaging limits it before publishing it
sched_des ==
    LET max == total_pages \div handspreadpages
        d1  == IF des_page_scanners > max THEN max ELSE des_page_scanners
    IN  IF d1 > MAX_PSCAN_THREADS THEN MAX_PSCAN_THREADS
        ELSE IF d1 = 0 THEN 1
        ELSE d1

\* lwp_kernel_create for i = from .. to-1; its result is not looked at, and
\* it creates nothing once MaxThreads threads exist
sched_spawn(thr, from, to) ==
    LET k == MIN(to - from, MaxThreads - Len(thr))
    IN  IF k <= 0 THEN thr
        ELSE thr \o [j \in 1..k |-> NewScanner(from + j - 1)]

\* a wake-up that reaches nobody
wake_nobody(thr) == thr

\* WAKE_PAGEOUT_SCANNER(): every scanner in cv_wait becomes runnable
wake_scanners(thr) ==
    [j \in 1..Len(thr) |->
        IF thr[j].pc = "wait" THEN [thr[j] EXCEPT !.pc = "woken"] ELSE thr[j]]

\* cv_signal_pageout(): the master is signalled when requests are pending
signal_pageout(m) == IF push_list # <<>> THEN cv_signal_push(m) ELSE m

\* pageout_mutex is held by the worker that is between its mutex_enter and
\* its mutex_exit
PageoutMutexFree == \A t \in DOMAIN scanners : scanners[t].pc # "po_held"

\* the scheduler keeps po_share from going below its floor
share_can_halve == po_share > MIN_PO_SHARE

sched_resize_early == des_page_scanners # n_page_scanners

\* the scheduler touches the pool only once the calibration has a result
sched_resize ==
    pageout_new_spread # 0 /\ des_page_scanners # n_page_scanners

Schedpaging ==
    LET vavail == sched_vavail
        resize == sched_resize
        des    == sched_des
        thr    == IF resize /\ des > n_page_scanners
                  THEN sched_spawn(scanners, n_page_scanners, des)
                  ELSE scanners
    IN  /\ Running
        /\ phase = "booted"
        /\ PushLockFree
        /\ PageoutMutexFree
        /\ nscan' = 0
        /\ IF resize
           THEN /\ des_page_scanners' = des
                /\ n_page_scanners' = des
                /\ reset_hands' = [i \in 0..(MAX_PSCAN_THREADS - 1) |-> TRUE]
           ELSE UNCHANGED <<des_page_scanners, n_page_scanners, reset_hands>>
        /\ IF freemem < lotsfree + needfree \/ PAGE_SCAN_STARTUP
           THEN /\ desscan' = sched_desscan(vavail)
                /\ pageout_nsec' = sched_pageout_nsec(vavail)
                /\ zones_over' = FALSE
                /\ scanners' = wake_scanners(thr)
                /\ UNCHANGED <<po_share, master>>
           ELSE IF zone_num_over_cap > 0
           THEN /\ desscan' = total_pages
                /\ pageout_nsec' = IF zone_pageout_nsec # 0
                                   THEN zone_pageout_nsec
                                   ELSE max_pageout_nsec
                /\ zones_over' = TRUE
                /\ scanners' = wake_scanners(thr)
                /\ UNCHANGED <<po_share, master>>
           ELSE /\ desscan' = sched_desscan(vavail)
                /\ pageout_nsec' = sched_pageout_nsec(vavail)
                /\ zones_over' = FALSE
                /\ scanners' = thr
                /\ master' = signal_pageout(master)
                /\ po_share' = IF share_can_halve
                               THEN po_share \div 2 ELSE po_share
        /\ last' = "Schedpaging"
        /\ UNCHANGED <<clockvars, calvars, pageout_reset_cnt, envvars,
                       nsecvars, ckp, pushvars, push_ticks, dmvars, bookvars>>
        /\ UNCHANGED <<async_list_size, req_freelist, push_list,
                       push_list_size, pushes, max_pushes, a_vp, v_count>>

\* the operator writes des_page_scanners with mdb
OperatorSetDes(v) ==
    /\ Running
    /\ phase = "booted"
    /\ v # des_page_scanners
    /\ des_page_scanners' = v
    /\ last' = "OperatorSetDes"
    /\ UNCHANGED <<n_page_scanners, reset_hands>>
    /\ UNCHANGED <<clockvars, calvars, scanvars, envvars, schedvars, nsecvars,
                   queuevars, ckp, pushvars, push_ticks, dmvars, bookvars>>

\* free memory, the demand for it and the zones over their cap change
EnvChange(f, nf, zc) ==
    /\ Running
    /\ phase = "booted"
    /\ <<f, nf, zc>> # <<freemem, needfree, zone_num_over_cap>>
    /\ freemem' = f /\ needfree' = nf /\ zone_num_over_cap' = zc
    /\ last' = "EnvChange"
    /\ UNCHANGED <<deficit, dopageout>>
    /\ UNCHANGED <<clockvars, calvars, poolvars, scanvars, schedvars, nsecvars,
                   queuevars, ckp, pushvars, push_ticks, dmvars, bookvars>>

TValuesSched == {262144, 67108864}
DesValues == {0, 2, 100}

InitSched ==
    /\ \E T \in TValuesSched : ClockBooted(T, 0, 0)
    /\ CalInit0 /\ pageout_reset_cnt = 64 /\ EnvInit0 /\ SchedBooted
    /\ PoolBuilt(1, maxpgio, {1})
    /\ CkpInit0(1) /\ DeadmanInit0(90)
    /\ phase = "booted" /\ npatch = 0 /\ last = "init"

NextSched ==
    \/ Schedpaging
    \/ \E pages \in SamplePages, etime \in SampleEtimes :
          CalibrationEnd(pages, etime)
    \/ \E T \in TValuesSched : MemoryDR(T)
    \/ \E v \in DesValues \cup {n_page_scanners} : OperatorSetDes(v)
    \/ \E f \in {0, total_pages}, nf \in {0, 1}, zc \in {0, 1} :
          EnvChange(f, nf, zc)

SpecSched == InitSched /\ [][NextSched]_vars

MaxScanners == MIN(MAX_PSCAN_THREADS, total_pages \div handspreadpages)

(* C9 as stated: in every state after initialization the current worker   *)
(* count is in [1, min(16, T / handspreadpages)].                         *)
C9_CountInRange ==
    clockinit.ci_init =>
        /\ 1 <= n_page_scanners
        /\ n_page_scanners <= MaxScanners

(* C9: the current worker count is always in [1, 16] and is 1 until       *)
(* calibration has finished; a scheduler tick that finds calibration      *)
(* finished and the desired count different from the current one          *)
(* publishes a count in [1, min(16, T / handspreadpages)], whatever       *)
(* value the operator wrote into the desired count.                       *)
C9_CountPublishedInRange ==
    /\ [](clockinit.ci_init =>
            /\ n_page_scanners \in 1..MAX_PSCAN_THREADS
            /\ (pageout_new_spread = 0 => n_page_scanners = 1))
    /\ [][(last' = "Schedpaging" /\ pageout_new_spread # 0
             /\ des_page_scanners # n_page_scanners)
          => /\ 1 <= n_page_scanners'
             /\ n_page_scanners' <= MaxScanners
             /\ des_page_scanners' = n_page_scanners']_vars

C9_Witness ==
    /\ last = "Schedpaging"
    /\ n_page_scanners > 1
    /\ n_page_scanners < MAX_PSCAN_THREADS
    /\ n_page_scanners = total_pages \div handspreadpages

(* ------------------------------------------------------------------ *)
(* The scanner threads.  The page list is a ring of total_pages pages  *)
(* numbered from page_first() = 0.  A thread is at "start", in cv_wait *)
(* ("wait"), woken ("woken"), in its scan loop ("scan") or past it     *)
(* ("end"); a thread that exits leaves the sequence.                   *)
(* ------------------------------------------------------------------ *)
page_first == 0
page_next(p) == (p + 1) % total_pages
page_nextn(p, n) == (p + n) % total_pages

CkpResults == {"CKP_INELIGIBLE", "CKP_NOT_FREED", "CKP_FREED"}

RemoveAt(seq, t) == [j \in 1..(Len(seq) - 1) |-> IF j < t THEN seq[j] ELSE seq[j + 1]]

\* the condition of the scan loop
ScanCond(thr) ==
    /\ thr.nscan_cnt < thr.nscan_limit
    /\ (zones_over \/ freemem < lotsfree + needfree \/ PAGE_SCAN_STARTUP)

\* the hands a reset gives instance inst
reset_backhand(inst) ==
    page_nextn(page_first, (total_pages \div n_page_scanners) * inst)
reset_fronthand(inst) ==
    IF handspreadpages >= total_pages
    THEN page_nextn(reset_backhand(inst), total_pages - 1)
    ELSE page_nextn(reset_backhand(inst), handspreadpages)

\* count = 0; pcount = 0; nscan_cnt = 0; nscan_limit = ...
start_cycle(thr) ==
    [thr EXCEPT !.pc = "scan", !.count = 0, !.pcount = 0, !.nscan_cnt = 0,
                !.cycle_nsec = 0,
                !.nscan_limit = IF PAGE_SCAN_STARTUP THEN total_pages
                                ELSE desscan]

\* a new thread sets the duty-cycle limits and goes to cv_wait
ScannerStart(t) ==
    /\ Running
    /\ scanners[t].pc = "start"
    /\ min_pageout_nsec' = calc_min_pageout_nsec
    /\ max_pageout_nsec' = calc_max_pageout_nsec
    /\ PushLockFree
    /\ master' = signal_pageout(master)
    /\ scanners' = [scanners EXCEPT ![t].pc = "wait"]
    /\ last' = "ScannerStart"
    /\ UNCHANGED <<clockvars, calvars, poolvars, pageout_reset_cnt, envvars,
                   schedvars, zone_pageout_nsec, pageout_timeouts, ckp,
                   pushvars, push_ticks, dmvars, bookvars>>
    /\ UNCHANGED <<async_list_size, req_freelist, push_list,
                   push_list_size, pushes, max_pushes, a_vp, v_count>>

\* a worker that ignores the kill switch
scanner_idles_never == FALSE

\* if (!dopageout) goto loop;
scanner_idles == ~dopageout

\* cv_wait returned: the dopageout test, the hand reset (or the exit of an
\* unwanted instance) and the start of a scan cycle.  Hands that were never
\* set hold whatever value the stack had.
scanner_exits_above(inst) == inst > n_page_scanners

\* the test a worker makes after it consumed its reset_hands latch
scanner_exits(inst) == inst >= n_page_scanners

\* what the hands of a worker hold before their first reset: the locals are
\* not initialised, and the first and the last page stand for any page
StaleHands == {page_first, total_pages - 1}

ScannerWake(t) ==
    LET thr  == scanners[t]
        inst == thr.inst
    IN  /\ Running
        /\ thr.pc = "woken"
        /\ PushLockFree
        /\ IF scanner_idles
           THEN /\ scanners' = [scanners EXCEPT ![t].pc = "wait"]
                /\ master' = signal_pageout(master)
                /\ UNCHANGED reset_hands
           ELSE IF reset_hands[inst]
           THEN /\ reset_hands' = [reset_hands EXCEPT ![inst] = FALSE]
                /\ scanners' =
                     IF scanner_exits(inst)
                     THEN RemoveAt(scanners, t)
                     ELSE [scanners EXCEPT ![t] =
                             start_cycle([thr EXCEPT
                                 !.backhand = reset_backhand(inst),
                                 !.fronthand = reset_fronthand(inst)])]
                /\ UNCHANGED master
           ELSE /\ \E fh \in IF thr.fronthand = -1 THEN StaleHands
                             ELSE {thr.fronthand},
                      bh \in IF thr.backhand = -1 THEN StaleHands
                             ELSE {thr.backhand} :
                      scanners' = [scanners EXCEPT ![t] =
                          start_cycle([thr EXCEPT !.backhand = bh,
                                                  !.fronthand = fh])]
                /\ UNCHANGED <<reset_hands, master>>
        /\ last' = "ScannerWake"
        /\ UNCHANGED <<clockvars, calvars, des_page_scanners, n_page_scanners,
                       pageout_reset_cnt, envvars, schedvars, nsecvars, ckp,
                       pushvars, push_ticks, dmvars, bookvars>>
        /\ UNCHANGED <<async_list_size, req_freelist, push_list,
                       push_list_size, pushes, max_pushes, a_vp, v_count>>

scan_counts_both(rvfront, rvback) ==
    rvfront # "CKP_INELIGIBLE" /\ rvback # "CKP_INELIGIBLE"

\* if (rvfront != CKP_INELIGIBLE || rvback != CKP_INELIGIBLE) nscan_cnt++;
scan_counts(rvfront, rvback) ==
    rvfront # "CKP_INELIGIBLE" \/ rvback # "CKP_INELIGIBLE"

\* one pass of the loop body: both hands are checked and advanced
ScanIterate(t, rvfront, rvback) ==
    LET thr   == scanners[t]
        inst  == thr.inst
        freed == rvfront = "CKP_FREED" \/ rvback = "CKP_FREED"
        inel  == ~scan_counts(rvfront, rvback)
        c1    == IF freed THEN 0 ELSE thr.count
        bh    == page_next(thr.backhand)
        fh    == page_next(thr.fronthand)
        wrap  == fh = page_first
        low   == freemem < lotsfree + needfree
        iter1 == IF wrap THEN thr.iter + 1 ELSE thr.iter
        c2    == IF wrap /\ low THEN c1 + 1 ELSE c1
        again == wrap /\ low /\ c2 > 1
    IN  /\ Running
        /\ thr.pc = "scan"
        /\ ScanCond(thr)
        /\ thr.pcount % (PAGES_POLL_MASK + 1) # PAGES_POLL_MASK
        /\ thr.iter < MaxIter
        /\ inel => (thr.pcount - thr.nscan_cnt) < MaxIneligible
        /\ scanners' = [scanners EXCEPT ![t] =
              [thr EXCEPT !.backhand = bh, !.fronthand = fh,
                          !.rvfront = rvfront, !.rvback = rvback,
                          !.pcount = thr.pcount + 1,
                          !.nscan_cnt = IF inel THEN thr.nscan_cnt
                                        ELSE thr.nscan_cnt + 1,
                          !.iter = iter1, !.count = c2,
                          !.pc = IF again /\ po_share >= MAX_PO_SHARE
                                 THEN "end" ELSE "scan"]]
        /\ reset_hands' = IF wrap /\ iter1 % pageout_reset_cnt = 0
                          THEN [reset_hands EXCEPT ![inst] = TRUE]
                          ELSE reset_hands
        /\ po_share' = IF again /\ po_share < MAX_PO_SHARE
                       THEN 2 * po_share ELSE po_share
        /\ last' = "ScanIterate"
        /\ UNCHANGED <<clockvars, calvars, des_page_scanners, n_page_scanners,
                       pageout_reset_cnt, envvars, nscan, desscan,
                       pageout_nsec, zones_over, nsecvars, queuevars, ckp,
                       pushvars, push_ticks, dmvars, bookvars>>

\* the loop ends (its condition fails, its time is used up at a poll point,
\* or it was left by break): nscan is added to, a sample is recorded or the
\* spread is set, and the thread goes back to cv_wait
ScanFinish(t, elapsed) ==
    LET thr     == scanners[t]
        timeout == /\ thr.pc = "scan" /\ ScanCond(thr)
                   /\ thr.pcount % (PAGES_POLL_MASK + 1) = PAGES_POLL_MASK
                   /\ elapsed >= pageout_nsec
    IN  /\ Running
        /\ thr.pc = "end" \/ (thr.pc = "scan" /\ ~ScanCond(thr)) \/ timeout
        /\ PushLockFree
        /\ pageout_timeouts' = IF timeout /\ ~zones_over
                               THEN pageout_timeouts + 1 ELSE pageout_timeouts
        /\ nscan' = nscan + thr.nscan_cnt
        /\ IF PAGE_SCAN_STARTUP
           THEN /\ pageout_sample_pages' = pageout_sample_pages + thr.pcount
                /\ pageout_sample_etime' = pageout_sample_etime + elapsed
                /\ pageout_sample_cnt' = pageout_sample_cnt + 1
                /\ UNCHANGED <<pageout_rate, pageout_new_spread>>
                /\ UNCHANGED <<looppages, pageout_threshold_style,
                               lotsfree_min, lotsfree_max, lotsfree, desfree,
                               minfree, throttlefree, pageout_reserve,
                               maxpgio, maxfastscan, fastscan, slowscan,
                               handspreadpages, clockinit, pscan_region_sz,
                               poolvars>>
           ELSE IF pageout_new_spread = 0
           THEN /\ set_spread(pageout_sample_pages, pageout_sample_etime)
                /\ UNCHANGED <<pageout_sample_pages, pageout_sample_etime,
                               pageout_sample_cnt>>
           ELSE /\ UNCHANGED calvars
                /\ UNCHANGED <<looppages, pageout_threshold_style,
                               lotsfree_min, lotsfree_max, lotsfree, desfree,
                               minfree, throttlefree, pageout_reserve,
                               maxpgio, maxfastscan, fastscan, slowscan,
                               handspreadpages, clockinit, pscan_region_sz,
                               poolvars>>
        /\ master' = signal_pageout(master)
        /\ scanners' = [scanners EXCEPT ![t].pc = "wait",
                                        ![t].rvfront = "none",
                                        ![t].rvback = "none"]
        /\ last' = "ScanFinish"
        /\ UNCHANGED <<total_pages, pageout_reset_cnt, envvars, desscan,
                       pageout_nsec, zones_over, po_share, min_pageout_nsec,
                       max_pageout_nsec, zone_pageout_nsec, ckp, pushvars,
                       push_ticks, dmvars, bookvars>>
        /\ UNCHANGED <<async_list_size, req_freelist, push_list,
                       push_list_size, pushes, max_pushes, a_vp, v_count>>

TScan == 10
ElapsedValues == {250000000}

InitScan ==
    /\ ClockBooted(TScan, 0, 2)
    /\ CalInit0 /\ pageout_reset_cnt = 2 /\ SchedInit0
    /\ scanners = <<NewScanner(0)>>
    /\ freemem = total_pages /\ needfree = 0 /\ deficit = 0
    /\ zone_num_over_cap = 0 /\ dopageout \in BOOLEAN
    /\ PoolBuilt(1, maxpgio, {1})
    /\ CkpInit0(1) /\ DeadmanInit0(90)
    /\ phase = "booted" /\ npatch = 0 /\ last = "init"

ZoneNsecValues == {0, 1, 500000000}

\* the operator writes zone_pageout_nsec with mdb
OperatorSetZoneNsec(v) ==
    /\ Running
    /\ phase = "booted"
    /\ v # zone_pageout_nsec
    /\ zone_pageout_nsec' = v
    /\ last' = "OperatorSetZoneNsec"
    /\ UNCHANGED <<min_pageout_nsec, max_pageout_nsec, pageout_timeouts>>
    /\ UNCHANGED <<clockvars, calvars, poolvars, scanvars, envvars, schedvars,
                   queuevars, ckp, pushvars, push_ticks, dmvars, bookvars>>

NextScan ==
    \/ Schedpaging
    \/ \E t \in DOMAIN scanners : ScannerStart(t)
    \/ \E t \in DOMAIN scanners : ScannerWake(t)
    \/ \E t \in DOMAIN scanners, rvfront \in CkpResults, rvback \in CkpResults :
          ScanIterate(t, rvfront, rvback)
    \/ \E t \in DOMAIN scanners, elapsed \in ElapsedValues :
          ScanFinish(t, elapsed)
    \/ \E f \in {0, total_pages}, zc \in {0, 1} : EnvChange(f, 0, zc)

SpecScan == InitScan /\ [][NextScan]_vars

\* the distance from the back hand to the front hand round the ring
HandGap(thr) == (thr.fronthand - thr.backhand) % total_pages

(* C10: within one worker the front hand is exactly the current global    *)
(* handspreadpages ahead of the back hand, modulo T, at every scan point, *)
(* also after handspreadpages was recalculated at the end of calibration. *)
C10_HandGapIsSpread ==
    \A t \in DOMAIN scanners :
        (scanners[t].pc = "scan" /\ ScanCond(scanners[t])) =>
            HandGap(scanners[t]) = MIN(handspreadpages, total_pages - 1)

(* ------------------------------------------------------------------ *)
(* The scheduler tick on its own, at a realistic memory size: every    *)
(* combination of free memory, deficit, demand and capped zones, with  *)
(* and without operator values for lotsfree, fastscan and slowscan.    *)
(* ------------------------------------------------------------------ *)
\* the globals after the boot-time call setupclock() with snapshot ci
ClockBootedWith(T, ci) ==
    LET th  == Thresholds(ci, T, FALSE)
        mfs == calc_maxfastscan(ci, 0)
        fs  == calc_fastscan(ci, T, mfs)
    IN  /\ total_pages = T /\ looppages = T
        /\ pageout_threshold_style = 0
        /\ clockinit = ci
        /\ lotsfree_max = th.lotsfree_max /\ lotsfree_min = th.lotsfree_min
        /\ lotsfree = th.lotsfree /\ desfree = th.desfree
        /\ minfree = th.minfree /\ throttlefree = th.throttlefree
        /\ pageout_reserve = th.pageout_reserve
        /\ maxpgio = calc_maxpgio(ci)
        /\ maxfastscan = mfs /\ fastscan = fs
        /\ slowscan = calc_slowscan(ci, fs)
        /\ handspreadpages = calc_handspreadpages(ci, fs, T)
        /\ pscan_region_sz = T
        /\ des_page_scanners = 1 /\ n_page_scanners = 1
        /\ reset_hands = [i \in 0..(MAX_PSCAN_THREADS - 1) |-> i = 0]

\* no tunable patched; lotsfree, fastscan and slowscan patched
NoOverrides == [NoClockinit EXCEPT !.ci_init = TRUE]
ScanOverrides ==
    [NoClockinit EXCEPT !.ci_init = TRUE, !.ci_lotsfree = 4000,
                        !.ci_fastscan = 5000, !.ci_slowscan = 500]

\* the writeback queue with the master in cv_wait: nothing pending, or one
\* request pending behind the push limit
QueueWaiting(throttled) ==
    /\ async_list_size = 1
    /\ max_pushes = maxpgio \div SCHEDPAGING_HZ
    /\ master = [pc |-> "wait", arg |-> 0]
    /\ IF throttled
       THEN /\ req_freelist = <<>> /\ push_list = <<1>> /\ push_list_size = 1
            /\ pushes = max_pushes + 1
            /\ a_vp = [i \in 1..1 |-> 1] /\ v_count = [v \in {1} |-> 1]
       ELSE /\ req_freelist = <<1>> /\ push_list = <<>> /\ push_list_size = 0
            /\ pushes = 0
            /\ a_vp = [i \in 1..1 |-> 0] /\ v_count = [v \in {1} |-> 0]

FreeValues == {0, 2000, 4000, 262144}
DeficitValues == {0, 1000}
NeedValues == {0, 500}

\* freemem, deficit, needfree and zone_num_over_cap take new values
EnvSet(f, d, nf, zc) ==
    /\ Running
    /\ phase = "booted"
    /\ <<f, d, nf, zc>> # <<freemem, deficit, needfree, zone_num_over_cap>>
    /\ freemem' = f /\ deficit' = d /\ needfree' = nf
    /\ zone_num_over_cap' = zc
    /\ last' = "EnvSet"
    /\ UNCHANGED dopageout
    /\ UNCHANGED <<clockvars, calvars, poolvars, scanvars, schedvars, nsecvars,
                   queuevars, ckp, pushvars, push_ticks, dmvars, bookvars>>

InitTick ==
    /\ \E ci \in {NoOverrides, ScanOverrides} : ClockBootedWith(262144, ci)
    /\ CalInit0 /\ pageout_reset_cnt = 64 /\ EnvInit0
    /\ nscan = 0 /\ desscan = 0 /\ pageout_nsec = 0 /\ zones_over = FALSE
    /\ po_share \in {MIN_PO_SHARE, 4 * MIN_PO_SHARE}
    /\ min_pageout_nsec = calc_min_pageout_nsec
    /\ max_pageout_nsec = calc_max_pageout_nsec
    /\ zone_pageout_nsec = 0 /\ pageout_timeouts = 0
    /\ scanners = <<FirstScanner>>
    /\ \E throttled \in BOOLEAN : QueueWaiting(throttled)
    /\ CkpInit0(1) /\ DeadmanInit0(90)
    /\ phase = "booted" /\ npatch = 0 /\ last = "init"

NextTick ==
    \/ Schedpaging
    \/ \E f \in FreeValues, d \in DeficitValues, nf \in NeedValues,
          zc \in {0, 1} : EnvSet(f, d, nf, zc)
    \/ \E v \in ZoneNsecValues : OperatorSetZoneNsec(v)
    \/ \E pages \in SamplePages, etime \in SampleEtimes :
          CalibrationEnd(pages, etime)

SpecTick == InitTick /\ [][NextTick]_vars

(* C11 as stated: after every scheduler tick the published page budget   *)
(* desscan lies in [0, fastscan / SCHEDPAGING_HZ].                        *)
C11_BudgetInRange ==
    last = "Schedpaging" =>
        /\ 0 <= desscan
        /\ desscan <= fastscan \div SCHEDPAGING_HZ

(* C11: after a scheduler tick that did not find zones over their cap     *)
(* with enough free memory, desscan lies in [0, fastscan / SCHEDPAGING_HZ]*)
(* for every freemem, deficit and needfree; after a tick in that zone     *)
(* mode desscan is total_pages.                                           *)
C11_BudgetInRangeOrZone ==
    last = "Schedpaging" =>
        /\ ~zones_over => /\ 0 <= desscan
                          /\ desscan <= fastscan \div SCHEDPAGING_HZ
        /\ zones_over => desscan = total_pages

C11_Witness ==
    /\ last = "Schedpaging"
    /\ ~zones_over
    /\ pageout_new_spread # 0
    /\ deficit > 0 /\ needfree > 0 /\ freemem = 2000
    /\ desscan > 0 /\ desscan < fastscan \div SCHEDPAGING_HZ

\* the scanner as in SpecScan, with zone_pageout_nsec set in /etc/system
InitScanZone ==
    /\ ClockBooted(TScan, 0, 2)
    /\ CalInit0 /\ pageout_reset_cnt = 2
    /\ nscan = 0 /\ desscan = 0 /\ pageout_nsec = 0
    /\ zones_over = FALSE /\ po_share = MIN_PO_SHARE
    /\ min_pageout_nsec = 0 /\ max_pageout_nsec = 0
    /\ zone_pageout_nsec \in {0, 500000000} /\ pageout_timeouts = 0
    /\ scanners = <<NewScanner(0)>>
    /\ EnvInit0
    /\ PoolBuilt(1, maxpgio, {1})
    /\ CkpInit0(1) /\ DeadmanInit0(90)
    /\ phase = "booted" /\ npatch = 0 /\ last = "init"

SpecScanZone == InitScanZone /\ [][NextScan]_vars

\* some worker is in its scan loop
Scanning == \E t \in DOMAIN scanners : scanners[t].pc = "scan"

NsecInRange ==
    /\ min_pageout_nsec <= pageout_nsec
    /\ pageout_nsec <= max_pageout_nsec

(* C12 as stated: whenever a worker can be scanning, the CPU budget       *)
(* pageout_nsec lies between min_pageout_nsec and max_pageout_nsec, for   *)
(* every freemem and every zone_pageout_nsec.                             *)
C12_NsecInRange == Scanning => NsecInRange

(* C12: whenever a worker can be scanning, min_pageout_nsec and           *)
(* max_pageout_nsec have been initialised, and pageout_nsec lies between  *)
(* them unless the last tick found zones over their cap; then it is       *)
(* max_pageout_nsec or the value an operator gave zone_pageout_nsec.      *)
C12_NsecInRangeOrZone ==
    Scanning =>
        /\ min_pageout_nsec = calc_min_pageout_nsec
        /\ max_pageout_nsec = calc_max_pageout_nsec
        /\ ~zones_over => NsecInRange
        /\ zones_over => \/ pageout_nsec = max_pageout_nsec
                         \/ pageout_nsec \in ZoneNsecValues \ {0}

\* a worker scans after a tick that ran before the worker initialised the
\* limits (the tick counter shows two ticks, the first with limits 0)
C12_Witness ==
    /\ Scanning
    /\ ~zones_over
    /\ pageout_new_spread # 0
    /\ pageout_nsec = min_pageout_nsec
    /\ pageout_nsec > 0

\* the boot-time value of a tunable in snapshot ci
OverrideIn(ci, name) ==
    CASE name = "lotsfree_min" -> ci.ci_lotsfree_min
      [] name = "lotsfree_max" -> ci.ci_lotsfree_max
      [] name = "lotsfree" -> ci.ci_lotsfree
      [] name = "desfree" -> ci.ci_desfree
      [] name = "minfree" -> ci.ci_minfree
      [] name = "throttlefree" -> ci.ci_throttlefree
      [] name = "pageout_reserve" -> ci.ci_pageout_reserve
      [] name = "maxpgio" -> ci.ci_maxpgio
      [] name = "maxfastscan" -> ci.ci_maxfastscan
      [] name = "fastscan" -> ci.ci_fastscan
      [] name = "slowscan" -> ci.ci_slowscan
      [] name = "handspreadpages" -> ci.ci_handspreadpages

Override(name) == OverrideIn(clockinit, name)

\* value v of a tunable is accepted by the call that published the current
\* globals: below the ceiling of tune(), within the cap of the scan rates
Accepted(name, v) ==
    CASE name = "lotsfree_max" -> v < looppages
      [] name = "lotsfree_min" -> v < lotsfree_max
      [] name = "lotsfree" -> v < looppages
      [] name = "desfree" -> v < lotsfree
      [] name = "minfree" -> v < desfree
      [] name = "throttlefree" -> v < desfree
      [] name = "pageout_reserve" -> v < throttlefree
      [] name = "maxpgio" -> TRUE
      [] name = "maxfastscan" -> TRUE
      [] name = "fastscan" -> v <= looppages \div loopfraction
      [] name = "slowscan" -> v <= fastscan \div 2
      [] name = "handspreadpages" -> v < looppages

Effective(name) == Override(name) # 0 /\ TunableValue(name) = Override(name)

(* C13 as stated, for the recalculation that follows the first call: an  *)
(* operator value that is nonzero and effective after the first           *)
(* setupclock call is still the effective value after the next call.      *)
C13_OverridePersists ==
    [][\A name \in Tunables :
          (last = "Boot" /\ Effective(name)) => Effective(name)']_vars

(* C13: after every setupclock call, an operator value that is nonzero    *)
(* and below the ceiling of that call is the effective value; the         *)
(* snapshot holds the values the globals had before the first call and is *)
(* never written again.                                                   *)
C13_OverrideWhileAccepted ==
    /\ [](clockinit.ci_init =>
            \A name \in Tunables :
                (Override(name) # 0 /\ Accepted(name, Override(name)))
                    => TunableValue(name) = Override(name))
    /\ [][/\ clockinit.ci_init => clockinit' = clockinit
          /\ ~clockinit.ci_init /\ clockinit'.ci_init =>
                \A name \in Tunables :
                    OverrideIn(clockinit', name) = TunableValue(name)]_vars

C13_Witness ==
    /\ last = "MemoryDR"
    /\ pageout_new_spread # 0
    /\ Effective("lotsfree") /\ Effective("slowscan")

\* the default of a tunable in the call that published the current globals
Default(name) ==
    CASE name = "lotsfree_max" -> btop(LOTSFREE_MAX_DEFAULT)
      [] name = "lotsfree_min" -> btop(LOTSFREE_MIN_DEFAULT)
      [] name = "lotsfree" ->
             clamp(looppages \div lotsfree_fraction, lotsfree_min, lotsfree_max)
      [] name = "desfree" -> lotsfree \div 2
      [] name = "minfree" ->
             IF pageout_threshold_style = 1 THEN desfree \div 2
             ELSE (3 * desfree) \div 4
      [] name = "throttlefree" -> minfree
      [] name = "pageout_reserve" ->
             IF pageout_threshold_style = 1 THEN throttlefree \div 2
             ELSE (3 * throttlefree) \div 4
      [] name = "maxpgio" -> (DISKRPM * 2) \div 3
      [] name = "maxfastscan" ->
             IF pageout_new_spread # 0 THEN pageout_new_spread
             ELSE MAXHANDSPREADPAGES
      [] name = "fastscan" -> MIN(looppages \div loopfraction, maxfastscan)
      [] name = "slowscan" -> MIN(fastscan \div 10, maxslowscan)
      [] name = "handspreadpages" -> fastscan

\* the value a scan-rate tunable is cut down to
Cap(name) ==
    CASE name = "fastscan" -> looppages \div loopfraction
      [] name = "slowscan" -> fastscan \div 2
      [] name = "handspreadpages" -> looppages - 1

CappedTunables == {"fastscan", "slowscan", "handspreadpages"}

(* C14 as stated: for every tunable of setupclock, a snapshot value of 0  *)
(* or one at or above the ceiling yields the default, any other value is  *)
(* used verbatim.                                                         *)
C14_DefaultOrVerbatim ==
    clockinit.ci_init =>
        \A name \in Tunables :
            TunableValue(name) =
                IF Override(name) = 0 \/ ~Accepted(name, Override(name))
                THEN Default(name) ELSE Override(name)

(* C14: for lotsfree_min, lotsfree_max, lotsfree, desfree, minfree,       *)
(* throttlefree and pageout_reserve a snapshot value of 0 or one at or    *)
(* above the ceiling yields the default and any other value is used       *)
(* verbatim; maxpgio and maxfastscan have no ceiling; for fastscan,       *)
(* slowscan and handspreadpages 0 yields the default and a value above    *)
(* the limit yields the limit, not the default.                           *)
C14_DefaultVerbatimOrCap ==
    clockinit.ci_init =>
        /\ \A name \in Tunables \ CappedTunables :
              TunableValue(name) =
                  IF Override(name) = 0 \/ ~Accepted(name, Override(name))
                  THEN Default(name) ELSE Override(name)
        /\ \A name \in CappedTunables :
              TunableValue(name) =
                  IF Override(name) = 0 THEN Default(name)
                  ELSE IF Accepted(name, Override(name)) THEN Override(name)
                  ELSE Cap(name)

C14_Witness ==
    /\ clockinit.ci_init
    /\ clockinit.ci_fastscan = 300000 /\ fastscan = total_pages \div 2
    /\ fastscan # Default("fastscan")
    /\ clockinit.ci_lotsfree = 1800 /\ lotsfree = 1800

\* the thresholds and scan rates setupclock publishes
ThresholdValues == [name \in Tunables |-> TunableValue(name)]

(* C15: setupclock called twice in a row with the same total_pages, the   *)
(* same overrides and the same pageout_new_spread leaves every threshold  *)
(* the same after the second call as after the first.                     *)
C15_Idempotent ==
    [][last' = "SetupclockAgain" => ThresholdValues' = ThresholdValues]_vars

C15_Witness ==
    /\ last = "SetupclockAgain"
    /\ pageout_new_spread = 0
    /\ des_page_scanners = 1
    /\ clockinit.ci_desfree = 1800 /\ clockinit.ci_slowscan = 300000

\* the available memory and the page budget as the specification words them
SpecVavail(f) ==
    LET x == f - deficit - (IF pageout_new_spread # 0 THEN needfree ELSE 0)
    IN  IF x < 0 THEN 0 ELSE IF x > lotsfree THEN lotsfree ELSE x

SpecDesscan(f) ==
    IF pageout_new_spread = 0 /\ needfree > 0
    THEN fastscan \div 4
    ELSE ((slowscan * SpecVavail(f) + fastscan * (lotsfree - SpecVavail(f)))
              \div MAX(lotsfree, 1)) \div 4

(* C16: on a scheduler tick vavail = clamp(freemem - deficit - (needfree  *)
(* once calibrated), 0, lotsfree) and the tick computes desscan =         *)
(* (slowscan*vavail + fastscan*(lotsfree - vavail)) / max(lotsfree,1) / 4,*)
(* or fastscan/4 while calibration is incomplete and needfree > 0; that   *)
(* is the published desscan unless the tick then takes the zone branch.   *)
(* The value is slowscan/4 at vavail = lotsfree, fastscan/4 at vavail = 0,*)
(* never increases as freemem increases, and is 687 for lotsfree = 4000,  *)
(* slowscan = 500, fastscan = 5000, freemem = 2000, needfree = 0.         *)
C16_DesscanFormula ==
    /\ \A f \in FreeValues :
          /\ sched_vavail_at(f) = SpecVavail(f)
          /\ sched_desscan(sched_vavail_at(f)) = SpecDesscan(f)
          /\ (pageout_new_spread # 0 \/ needfree = 0) =>
                /\ SpecVavail(f) = lotsfree =>
                      SpecDesscan(f) = slowscan \div 4
                /\ SpecVavail(f) = 0 => SpecDesscan(f) = fastscan \div 4
          /\ \A g \in FreeValues :
                f <= g => SpecDesscan(g) <= SpecDesscan(f)
    /\ (last = "Schedpaging" /\ ~zones_over) => desscan = SpecDesscan(freemem)
    /\ (/\ last = "Schedpaging"
        /\ lotsfree = 4000 /\ slowscan = 500 /\ fastscan = 5000
        /\ freemem = 2000 /\ deficit = 0 /\ needfree = 0
        /\ pageout_new_spread # 0) => desscan = 687

C16_Witness ==
    /\ last = "Schedpaging"
    /\ lotsfree = 4000 /\ slowscan = 500 /\ fastscan = 5000
    /\ freemem = 2000 /\ deficit = 0 /\ needfree = 0
    /\ pageout_new_spread # 0
    /\ desscan = 687

\* the tick finds memory low or calibration in progress
TickLowMem == freemem < lotsfree + needfree \/ PAGE_SCAN_STARTUP

\* every scanner that was in cv_wait has been made runnable by this step
ScannersWoken ==
    \A j \in DOMAIN scanners :
        scanners'[j].pc = IF scanners[j].pc = "wait" THEN "woken"
                          ELSE scanners[j].pc

ScannersLeft == \A j \in DOMAIN scanners : scanners'[j] = scanners[j]

(* C17: each scheduler tick takes exactly one of three wake modes.        *)
(* (1) freemem < lotsfree + needfree or calibration in progress: the      *)
(* scanners are woken and zones_over is false. (2) Otherwise, with        *)
(* zone_num_over_cap > 0: zones_over is true, desscan = T, pageout_nsec = *)
(* zone_pageout_nsec (max_pageout_nsec when that is 0) and the scanners   *)
(* are woken. (3) Otherwise no scanner is woken, the writeback master is  *)
(* signalled (cv_signal_pageout, which acts when requests are pending)    *)
(* and po_share is halved if above MIN_PO_SHARE. zones_over is true after *)
(* a tick only in mode (2).                                               *)
C17_WakeModes ==
    [][last' = "Schedpaging" =>
         /\ TickLowMem =>
               /\ ScannersWoken /\ ~zones_over'
               /\ po_share' = po_share /\ master' = master
         /\ (~TickLowMem /\ zone_num_over_cap > 0) =>
               /\ ScannersWoken /\ zones_over'
               /\ desscan' = total_pages
               /\ pageout_nsec' = IF zone_pageout_nsec # 0
                                  THEN zone_pageout_nsec
                                  ELSE max_pageout_nsec
               /\ po_share' = po_share /\ master' = master
         /\ (~TickLowMem /\ zone_num_over_cap = 0) =>
               /\ ScannersLeft /\ ~zones_over'
               /\ master'.pc = IF master.pc = "wait" /\ push_list # <<>>
                               THEN "woken" ELSE master.pc
               /\ po_share' = IF po_share > MIN_PO_SHARE
                              THEN po_share \div 2 ELSE po_share]_vars

C17_Witness ==
    /\ last = "Schedpaging"
    /\ ~TickLowMem /\ zone_num_over_cap = 0
    /\ scanners[1].pc = "wait"
    /\ master.pc = "woken"
    /\ po_share = 2 * MIN_PO_SHARE

(* C18: after the first setupclock call with no operator overrides,     *)
(* lotsfree = clamp(T / lotsfree_fraction, 16 MiB in pages, 2 GiB in      *)
(* pages), desfree = lotsfree/2, minfree = 3*desfree/4 (desfree/2 with    *)
(* style 1), throttlefree = minfree, pageout_reserve = 3*throttlefree/4   *)
(* (half with style 1), des_page_scanners = n_page_scanners = 1 and       *)
(* reset_hands[0] is set; T = 262144 gives 4096, 2048, 1536, 1536, 1152.  *)
C18_BootDefaults ==
    (last = "Boot" /\ npatch = 0) =>
        LET x == total_pages \div 64
            half == pageout_threshold_style = 1
        IN  /\ lotsfree = IF x < 4096 THEN 4096
                          ELSE IF x > 524288 THEN 524288 ELSE x
            /\ desfree = lotsfree \div 2
            /\ minfree = IF half THEN desfree \div 2 ELSE (3 * desfree) \div 4
            /\ throttlefree = minfree
            /\ pageout_reserve = IF half THEN throttlefree \div 2
                                 ELSE (3 * throttlefree) \div 4
            /\ des_page_scanners = 1 /\ n_page_scanners = 1
            /\ reset_hands[0]
            /\ (total_pages = 262144 /\ ~half) =>
                  /\ lotsfree = 4096 /\ desfree = 2048 /\ minfree = 1536
                  /\ throttlefree = 1536 /\ pageout_reserve = 1152

C18_Witness ==
    /\ last = "Boot" /\ npatch = 0
    /\ total_pages = 262144 /\ pageout_threshold_style = 0
    /\ lotsfree = 4096 /\ pageout_reserve = 1152
    /\ n_page_scanners = 1 /\ reset_hands[0]

(* C19: when calibration finishes, pageout_rate = sample_pages * 10^9 /  *)
(* sample_etime, pageout_new_spread = pageout_rate / 10, and setupclock   *)
(* is re-run as a recalculation, which without operator overrides sets    *)
(* maxfastscan = pageout_new_spread and fastscan = min(T/2, maxfastscan); *)
(* 400,000 pages in 2*10^8 ns (the rate of 10,000,000 pages in 5*10^9 ns) *)
(* give rate 2,000,000 and spread 200,000. Once pageout_new_spread is     *)
(* nonzero it is never written again.                                     *)
C19_CalibrationResult ==
    /\ [](pageout_new_spread # 0 =>
            /\ pageout_rate = MulDiv(pageout_sample_pages, NANOSEC,
                                     pageout_sample_etime)
            /\ NANOSEC % pageout_sample_etime = 0 =>
                  pageout_rate = pageout_sample_pages
                                     * (NANOSEC \div pageout_sample_etime)
            /\ pageout_new_spread = pageout_rate \div 10
            /\ clockinit.ci_maxfastscan = 0 => maxfastscan = pageout_new_spread
            /\ clockinit.ci_fastscan = 0 =>
                  fastscan = MIN(total_pages \div 2, maxfastscan)
            /\ (pageout_sample_pages = 400000
                    /\ pageout_sample_etime = 200000000) =>
                  pageout_rate = 2000000 /\ pageout_new_spread = 200000)
    /\ [][/\ pageout_new_spread # 0 =>
                pageout_new_spread' = pageout_new_spread
          /\ (pageout_new_spread = 0 /\ pageout_new_spread' # 0) =>
                clockinit.ci_init /\ clockinit' = clockinit]_vars

C19_Witness ==
    /\ last = "CalibrationEnd"
    /\ pageout_rate = 2000000 /\ pageout_new_spread = 200000
    /\ clockinit.ci_maxfastscan = 0 /\ clockinit.ci_fastscan = 0
    /\ total_pages = 536870912
    /\ maxfastscan = 200000 /\ fastscan = 200000

(* ------------------------------------------------------------------ *)
(* The sizing of the scanner pool: machines from 1 GiB to 2 TiB, with  *)
(* handspreadpages left to its default or set in /etc/system.          *)
(* ------------------------------------------------------------------ *)
TValuesRegion == {262144, 41943040, 67108864, 536870912}
SpreadPatches == {0, 12000000, 20000000}

InitRegion ==
    /\ \E T \in TValuesRegion, hs \in SpreadPatches :
          /\ total_pages = T /\ looppages = 0
          /\ pageout_threshold_style = 0
          /\ lotsfree_min = 0 /\ lotsfree_max = 0 /\ lotsfree = 0
          /\ desfree = 0 /\ minfree = 0 /\ throttlefree = 0
          /\ pageout_reserve = 0 /\ maxpgio = 0 /\ maxfastscan = 0
          /\ fastscan = 0 /\ slowscan = 0
          /\ handspreadpages = hs
          /\ clockinit = NoClockinit /\ pscan_region_sz = 0
          /\ npatch = IF hs = 0 THEN 0 ELSE 1
    /\ CalInit0 /\ PoolInit0 /\ ScanInit0(64) /\ EnvInit0 /\ SchedInit0
    /\ QueueInit0(1) /\ CkpInit0(1) /\ DeadmanInit0(90)
    /\ phase = "preboot" /\ last = "init"

NextRegion ==
    \/ Boot
    \/ SetupclockAgain
    \/ \E pages \in SamplePages, etime \in SampleEtimes :
           CalibrationEnd(pages, etime)
    \/ \E T \in TValuesRegion : MemoryDR(T)

SpecRegion == InitRegion /\ [][NextRegion]_vars

\* the state was published by a recalculating setupclock call
Recalculated == last \in {"SetupclockAgain", "CalibrationEnd", "MemoryDR"}

\* des_page_scanners for region size r: ceil(T / r) within [1, 16]
SpecDesFor(r) ==
    LET n == (total_pages + r - 1) \div r
    IN  IF n < 1 THEN 1 ELSE IF n > 16 THEN 16 ELSE n

(* C20 as stated: after a recalculating setupclock call the region size   *)
(* is max(64 GiB in pages, 2*handspreadpages) clamped to T and            *)
(* des_page_scanners = ceil(T / region size) clamped to [1, 16].          *)
C20_RegionIsMax ==
    Recalculated =>
        LET r == MIN(MAX(16777216, 2 * handspreadpages), total_pages)
        IN  /\ pscan_region_sz = r
            /\ des_page_scanners = SpecDesFor(r)

(* C20: after a recalculating setupclock call the region size is 64 GiB   *)
(* in pages, or 2*handspreadpages when handspreadpages is above 64 GiB in *)
(* pages, clamped to T, and des_page_scanners = ceil(T / region size)     *)
(* clamped to [1, 16].                                                    *)
C20_RegionDoubledAboveDefault ==
    Recalculated =>
        LET r == MIN(IF handspreadpages > 16777216
                     THEN 2 * handspreadpages ELSE 16777216, total_pages)
        IN  /\ pscan_region_sz = r
            /\ des_page_scanners = SpecDesFor(r)

C20_Witness ==
    /\ Recalculated
    /\ total_pages = 67108864
    /\ handspreadpages = 12000000
    /\ pscan_region_sz = 16777216
    /\ des_page_scanners = 4

\* a request is accepted / the master takes a request for put_page
Accepts == Len(push_list') > Len(push_list)
Dispatches == Len(push_list') < Len(push_list)

(* C21 as stated: the master dispatches pending requests in FIFO order;   *)
(* the request it passes to put_page is the one accepted earliest among   *)
(* those pending.                                                         *)
C21_DispatchFifo ==
    [][/\ Accepts => Tail(push_list') = push_list
       /\ Dispatches => /\ master'.arg = push_list[Len(push_list)]
                        /\ master'.pc = "putpage"]_vars

(* C21: the pending list is a stack: queue_io_request puts an accepted    *)
(* request at its head and the master passes the head to put_page, so of  *)
(* the requests pending when the master looks, the one accepted last is   *)
(* dispatched first.                                                      *)
C21_DispatchLifo ==
    [][/\ Accepts => Tail(push_list') = push_list
       /\ Dispatches => /\ master'.arg = Head(push_list)
                        /\ push_list' = Tail(push_list)
                        /\ master'.pc = "putpage"]_vars

\* the master is pushing a request while one accepted before it still waits
C21_Witness ==
    /\ last = "MasterCheck"
    /\ master.pc = "putpage"
    /\ push_list # <<>>
    /\ a_vp[master.arg] # a_vp[push_list[1]]

(* ------------------------------------------------------------------ *)
(* The scanner of SpecScan with the kill switch dopageout patched at    *)
(* run time.                                                            *)
(* ------------------------------------------------------------------ *)
OperatorSetDopageout(b) ==
    /\ Running
    /\ phase = "booted"
    /\ b # dopageout
    /\ dopageout' = b
    /\ last' = "OperatorSetDopageout"
    /\ UNCHANGED <<freemem, needfree, deficit, zone_num_over_cap>>
    /\ UNCHANGED <<clockvars, calvars, poolvars, scanvars, schedvars, nsecvars,
                   queuevars, ckp, pushvars, push_ticks, dmvars, bookvars>>

NextScanGate ==
    \/ Schedpaging
    \/ \E t \in DOMAIN scanners : ScannerStart(t)
    \/ \E t \in DOMAIN scanners : ScannerWake(t)
    \/ \E t \in DOMAIN scanners, rvfront \in CkpResults, rvback \in CkpResults :
          ScanIterate(t, rvfront, rvback)
    \/ \E t \in DOMAIN scanners, elapsed \in ElapsedValues :
          ScanFinish(t, elapsed)
    \/ \E f \in {0, total_pages} : EnvChange(f, 0, 0)
    \/ \E b \in BOOLEAN : OperatorSetDopageout(b)

SpecScanGate == InitScan /\ [][NextScanGate]_vars

(* C22 as stated: while dopageout is 0 no scanner calls checkpage, so no  *)
(* page is freed or queued by a scanner in that period.                   *)
C22_NoScanWhileOff ==
    [][~dopageout => last' # "ScanIterate"]_vars

(* C22: while dopageout is 0, every scanner worker that is woken goes     *)
(* back to sleep without calling checkpage, moving its hands, consuming   *)
(* its reset_hands latch, exiting, or changing nscan, po_share or the     *)
(* calibration counters, and no scan cycle is started; a cycle that was   *)
(* started while dopageout was set is not interrupted.                    *)
C22_WokenWorkerIdles ==
    [][/\ (last' = "ScannerWake" /\ ~dopageout) =>
             /\ \E t \in DOMAIN scanners :
                   /\ scanners[t].pc = "woken"
                   /\ scanners' = [scanners EXCEPT ![t].pc = "wait"]
             /\ reset_hands' = reset_hands
             /\ nscan' = nscan /\ po_share' = po_share
             /\ calvars' = calvars
             /\ push_list' = push_list /\ req_freelist' = req_freelist
       /\ \A t \in DOMAIN scanners :
             (/\ t \in DOMAIN scanners'
              /\ scanners[t].pc # "scan" /\ scanners'[t].pc = "scan")
                 => dopageout]_vars

C22_Witness ==
    /\ last = "ScannerWake"
    /\ ~dopageout
    /\ scanners[1].pc = "wait"
    /\ reset_hands[0]
    /\ pageout_sample_cnt > 0

(* ------------------------------------------------------------------ *)
(* The pool of scanner threads: the scheduler resizes it, the operator *)
(* writes des_page_scanners, and every worker runs its cycle.  The     *)
(* scan loop is taken a stretch of pages at a time: a stretch ends at  *)
(* the latest where the front hand wraps or the page budget is used    *)
(* up, and every page of it counts as scanned.                         *)
(* ------------------------------------------------------------------ *)
TPool == 6

\* the pages left before the front hand is on page_first() again
ToWrap(thr) == total_pages - thr.fronthand

\* k iterations of the scan loop by worker t; freed tells whether checkpage
\* returned CKP_FREED in them.  The lap counter iter is only ever read
\* modulo pageout_reset_cnt, and is kept modulo it.
ScanRun(t, k, freed) ==
    LET thr   == scanners[t]
        inst  == thr.inst
        c1    == IF freed THEN 0 ELSE thr.count
        bh    == page_nextn(thr.backhand, k)
        fh    == page_nextn(thr.fronthand, k)
        wrap  == fh = page_first
        low   == freemem < lotsfree + needfree
        iter1 == IF wrap THEN (thr.iter + 1) % pageout_reset_cnt
                 ELSE thr.iter
        c2    == IF wrap /\ low THEN c1 + 1 ELSE c1
        again == wrap /\ low /\ c2 > 1
    IN  /\ Running
        /\ thr.pc = "scan"
        /\ ScanCond(thr)
        /\ k >= 1 /\ k <= ToWrap(thr)
        /\ k <= thr.nscan_limit - thr.nscan_cnt
        /\ thr.pcount + k <= PAGES_POLL_MASK
        /\ scanners' = [scanners EXCEPT ![t] =
              [thr EXCEPT !.backhand = bh, !.fronthand = fh,
                          !.pcount = thr.pcount + k,
                          !.nscan_cnt = thr.nscan_cnt + k,
                          !.iter = iter1, !.count = c2,
                          !.pc = IF again /\ po_share >= MAX_PO_SHARE
                                 THEN "end" ELSE "scan"]]
        /\ reset_hands' = IF wrap /\ iter1 % pageout_reset_cnt = 0
                          THEN [reset_hands EXCEPT ![inst] = TRUE]
                          ELSE reset_hands
        /\ po_share' = IF again /\ po_share < MAX_PO_SHARE
                       THEN 2 * po_share ELSE po_share
        /\ last' = "ScanRun"
        /\ UNCHANGED <<clockvars, calvars, des_page_scanners, n_page_scanners,
                       pageout_reset_cnt, envvars, nscan, desscan,
                       pageout_nsec, zones_over, nsecvars, queuevars, ckp,
                       pushvars, push_ticks, dmvars, bookvars>>

\* the longest stretch worker t can run now
MaxRun(t) ==
    MIN(ToWrap(scanners[t]), scanners[t].nscan_limit - scanners[t].nscan_cnt)

InitPool ==
    /\ ClockBooted(TPool, 0, 2)
    /\ CalInit0 /\ pageout_reset_cnt = 2 /\ SchedInit0
    /\ scanners = <<NewScanner(0)>>
    /\ EnvInit0
    /\ PoolBuilt(1, maxpgio, {1})
    /\ CkpInit0(1) /\ DeadmanInit0(90)
    /\ phase = "booted" /\ npatch = 0 /\ last = "init"

NextPool ==
    \/ Schedpaging
    \/ \E t \in DOMAIN scanners : ScannerStart(t)
    \/ \E t \in DOMAIN scanners : ScannerWake(t)
    \/ \E t \in DOMAIN scanners, freed \in BOOLEAN :
          ScanRun(t, MaxRun(t), freed)
    \/ \E t \in DOMAIN scanners, elapsed \in ElapsedValues :
          ScanFinish(t, elapsed)
    \/ \E f \in {0, total_pages} : EnvChange(f, 0, 0)
    \/ \E v \in 1..MaxThreads : OperatorSetDes(v)

SpecPool == InitPool /\ [][NextPool]_vars

Insts == {scanners[t].inst : t \in DOMAIN scanners}

(* C23: a worker that wakes with dopageout set and finds its reset_hands
   latch set terminates exactly when its instance number is at or above
   n_page_scanners; every termination is of such a worker, never of
   instance 0, and a worker with instance 0 always exists. *)
MustExit(t) ==
    /\ dopageout
    /\ reset_hands[scanners[t].inst]
    /\ scanners[t].inst >= n_page_scanners

C23_ExcessWorkersExit ==
    /\ [](0 \in Insts /\ n_page_scanners >= 1)
    /\ [][last' = "ScannerWake" =>
            \E t \in DOMAIN scanners :
               /\ scanners[t].pc = "woken"
               /\ IF MustExit(t)
                  THEN /\ scanners' = RemoveAt(scanners, t)
                       /\ scanners[t].inst # 0
                  ELSE /\ Len(scanners') = Len(scanners)
                       /\ scanners'[t].pc # "woken"]_vars

\* instance 2 has left after a shrink to two workers, 0 and 1 are still there
C23_Witness ==
    /\ last = "ScannerWake"
    /\ n_page_scanners = 2
    /\ Insts = {0, 1}
    /\ ~reset_hands[2]
    /\ Len(scanners) = 2

(* C24: the calibration state is written only by worker 0: while samples
   are still being taken or no spread has been computed the pool consists
   of the single worker with instance 0, so the worker that reaches the
   calibration bookkeeping in that window passes VERIFY(inst == 0). *)
Calibrating == PAGE_SCAN_STARTUP \/ pageout_new_spread = 0

C24_CalibrationByWorkerZero ==
    /\ [](Calibrating => Len(scanners) = 1 /\ Insts = {0})
    /\ [][calvars' # calvars =>
            /\ last' = "ScanFinish"
            /\ \E t \in DOMAIN scanners :
                  /\ scanners[t].pc \in {"scan", "end"}
                  /\ scanners'[t].pc = "wait"
                  /\ scanners[t].inst = 0]_vars

\* worker 0 has just computed the spread while the operator asks for three
C24_Witness ==
    /\ last = "ScanFinish"
    /\ pageout_new_spread # 0
    /\ pageout_sample_cnt = pageout_sample_lim
    /\ des_page_scanners = 3
    /\ n_page_scanners = 1
    /\ Len(scanners) = 1

(* ------------------------------------------------------------------ *)
(* po_share under the scheduler and two workers.  A worker's scan is   *)
(* taken a lap at a time, up to the point where the front hand is back *)
(* on the first page; the update of po_share is split at               *)
(* mutex_enter(&pageout_mutex) and at the test under the mutex.        *)
(* ------------------------------------------------------------------ *)
TShare == 8
MaxLaps == 2

wrap_escalates_first(low, count) == low /\ count > 0

\* if (freemem < lotsfree + needfree && ++count > 1), with count already
\* incremented
wrap_escalates(low, count) == low /\ count > 1

\* one lap of worker t to the wrap of its front hand, over pages that are
\* ineligible (they do not count against the budget); with freed, the last
\* page pair of the lap is one whose front page checkpage frees.  No poll of
\* the CPU budget ends the cycle in it.  The lap counter iter is only ever
\* read modulo pageout_reset_cnt, and is kept modulo it.
ScanLap(t, freed) ==
    LET thr   == scanners[t]
        inst  == thr.inst
        k     == ToWrap(thr)
        low   == freemem < lotsfree + needfree
        iter1 == (thr.iter + 1) % pageout_reset_cnt
        c1    == IF freed THEN 0 ELSE thr.count
        c2    == IF low THEN c1 + 1 ELSE c1
        again == wrap_escalates(low, c2)
    IN  /\ Running
        /\ thr.pc = "scan"
        /\ ScanCond(thr)
        /\ thr.pcount + k <= MaxLaps * total_pages
        /\ scanners' = [scanners EXCEPT ![t] =
              [thr EXCEPT !.backhand = page_nextn(thr.backhand, k),
                          !.fronthand = page_first,
                          !.rvfront = IF freed THEN "CKP_FREED"
                                      ELSE "CKP_INELIGIBLE",
                          !.rvback = "CKP_INELIGIBLE",
                          !.pcount = thr.pcount + k,
                          !.nscan_cnt = IF freed THEN thr.nscan_cnt + 1
                                        ELSE thr.nscan_cnt,
                          !.iter = iter1, !.count = c2,
                          !.pc = IF again THEN "po_enter" ELSE "scan"]]
        /\ reset_hands' = IF iter1 = 0
                          THEN [reset_hands EXCEPT ![inst] = TRUE]
                          ELSE reset_hands
        /\ last' = "ScanLap"
        /\ UNCHANGED <<clockvars, calvars, des_page_scanners, n_page_scanners,
                       pageout_reset_cnt, envvars, schedvars, nsecvars,
                       queuevars, ckp, pushvars, push_ticks, dmvars, bookvars>>

\* mutex_enter(&pageout_mutex) of worker t
ShareEnter(t) ==
    /\ Running
    /\ scanners[t].pc = "po_enter"
    /\ PageoutMutexFree
    /\ scanners' = [scanners EXCEPT ![t].pc = "po_held"]
    /\ last' = "ShareEnter"
    /\ UNCHANGED <<clockvars, calvars, poolvars, pageout_reset_cnt, envvars,
                   schedvars, nsecvars, queuevars, ckp, pushvars, push_ticks,
                   dmvars, bookvars>>

share_can_double_always == TRUE

\* the test a worker makes under pageout_mutex
share_can_double == po_share < MAX_PO_SHARE

\* the test under the mutex, the doubling or the break, and mutex_exit
ShareUpdate(t) ==
    /\ Running
    /\ scanners[t].pc = "po_held"
    /\ IF share_can_double
       THEN /\ po_share' = 2 * po_share
            /\ scanners' = [scanners EXCEPT ![t].pc = "scan"]
       ELSE /\ UNCHANGED po_share
            /\ scanners' = [scanners EXCEPT ![t].pc = "end"]
    /\ last' = "ShareUpdate"
    /\ UNCHANGED <<clockvars, calvars, poolvars, pageout_reset_cnt, envvars,
                   nscan, desscan, pageout_nsec, zones_over, nsecvars,
                   queuevars, ckp, pushvars, push_ticks, dmvars, bookvars>>

NextShare ==
    \/ Schedpaging
    \/ \E t \in DOMAIN scanners : ScannerStart(t)
    \/ \E t \in DOMAIN scanners : ScannerWake(t)
    \/ \E t \in DOMAIN scanners, freed \in BOOLEAN : ScanLap(t, freed)
    \/ \E t \in DOMAIN scanners : ShareEnter(t)
    \/ \E t \in DOMAIN scanners : ShareUpdate(t)
    \/ \E t \in DOMAIN scanners, elapsed \in ElapsedValues :
          ScanFinish(t, elapsed)
    \/ \E f \in {0, total_pages} : EnvChange(f, 0, 0)

\* the pool at the end of the startup calibration: worker 0 has computed the
\* spread out of ten times as many pages a second and waits; des is what
\* des_page_scanners holds
PoolCalibrated(T, spread, des) ==
    /\ LET ci  == [NoClockinit EXCEPT !.ci_init = TRUE, !.ci_lotsfree = 2]
           th  == Thresholds(ci, T, FALSE)
           mfs == calc_maxfastscan(ci, spread)
           fs  == calc_fastscan(ci, T, mfs)
           hs  == calc_handspreadpages(ci, fs, T)
       IN  /\ total_pages = T /\ looppages = T
           /\ pageout_threshold_style = 0
           /\ clockinit = ci
           /\ lotsfree_max = th.lotsfree_max /\ lotsfree_min = th.lotsfree_min
           /\ lotsfree = th.lotsfree /\ desfree = th.desfree
           /\ minfree = th.minfree /\ throttlefree = th.throttlefree
           /\ pageout_reserve = th.pageout_reserve
           /\ maxpgio = calc_maxpgio(ci)
           /\ maxfastscan = mfs /\ fastscan = fs
           /\ slowscan = calc_slowscan(ci, fs)
           /\ handspreadpages = hs
           /\ pscan_region_sz = calc_region_sz(T, hs)
           /\ des_page_scanners = des
           /\ n_page_scanners = 1
           /\ reset_hands = [i \in 0..(MAX_PSCAN_THREADS - 1) |-> FALSE]
           /\ scanners = <<[NewScanner(0) EXCEPT !.pc = "wait",
                                !.backhand = page_first, !.fronthand = hs]>>
    /\ pageout_new_spread = spread
    /\ pageout_sample_cnt = pageout_sample_lim
    /\ pageout_sample_pages = 10 * spread
    /\ pageout_sample_etime = NANOSEC
    /\ pageout_rate = 10 * spread
    /\ pageout_reset_cnt = 2
    /\ nscan = 0 /\ desscan = 0 /\ pageout_nsec = 0 /\ zones_over = FALSE
    /\ min_pageout_nsec = calc_min_pageout_nsec
    /\ max_pageout_nsec = calc_max_pageout_nsec
    /\ zone_pageout_nsec = 0 /\ pageout_timeouts = 0

\* the operator has asked for a second worker
InitShare ==
    /\ PoolCalibrated(TShare, 4, 2)
    /\ po_share = MIN_PO_SHARE
    /\ EnvInit0
    /\ PoolBuilt(1, maxpgio, {1})
    /\ CkpInit0(1) /\ DeadmanInit0(90)
    /\ phase = "booted" /\ npatch = 0 /\ last = "init"

SpecShare == InitShare /\ [][NextShare]_vars

(* C25: po_share is always MIN_PO_SHARE times a power of two between
   MIN_PO_SHARE and MAX_PO_SHARE; it changes only by the scheduler halving
   it while no worker holds pageout_mutex, or by the one worker that holds
   pageout_mutex doubling it. *)
PoShareValues == {MIN_PO_SHARE * Pow2(k) : k \in 0..PO_SHARE_SHIFT}

MutexHolders == {t \in DOMAIN scanners : scanners[t].pc = "po_held"}

C25_PoShareRange ==
    /\ [](po_share \in PoShareValues /\ Cardinality(MutexHolders) <= 1)
    /\ [][po_share' # po_share =>
            \/ /\ last' = "Schedpaging"
               /\ MutexHolders = {}
               /\ po_share' = po_share \div 2
            \/ /\ last' = "ShareUpdate"
               /\ \E t \in MutexHolders : scanners'[t].pc = "scan"
               /\ po_share' = 2 * po_share]_vars

\* worker 0 finds po_share at its ceiling under the mutex and gives up while
\* worker 1 waits for the mutex
C25_Witness ==
    /\ last = "ShareUpdate"
    /\ po_share = MAX_PO_SHARE
    /\ Len(scanners) = 2
    /\ scanners[1].pc = "end"
    /\ scanners[2].pc = "po_enter"

(* ------------------------------------------------------------------ *)
(* checkpage, step by step, called by worker 0 for its front hand and  *)
(* then for its back hand, while the scheduler's tick runs beside it.  *)
(* The record of the call is kept until the next call starts.  The tick is split where it stores *)
(* B_FALSE into zones_over, the one store of it that a scanner can see *)
(* before the tick has decided.  Some zone is over its cap and memory  *)
(* is never low: every scan is a zone-cap scan.                        *)
(* ------------------------------------------------------------------ *)
PageZones == {"ALL_ZONES", "over", "under"}
EarlyReturns == {"none", "skipped", "trylock", "isfree", "lckcnt"}

\* schedpaging() up to and including zones_over = B_FALSE
TickClear ==
    LET vavail == sched_vavail
        resize == sched_resize
        des    == sched_des
    IN  /\ Running
        /\ phase = "booted"
        /\ PushLockFree
        /\ nscan' = 0
        /\ desscan' = sched_desscan(vavail)
        /\ pageout_nsec' = sched_pageout_nsec(vavail)
        /\ IF resize
           THEN /\ des_page_scanners' = des
                /\ n_page_scanners' = des
                /\ reset_hands' = [i \in 0..(MAX_PSCAN_THREADS - 1) |-> TRUE]
                /\ scanners' = IF des > n_page_scanners
                               THEN sched_spawn(scanners, n_page_scanners, des)
                               ELSE scanners
           ELSE UNCHANGED <<des_page_scanners, n_page_scanners, reset_hands,
                            scanners>>
        /\ zones_over' = FALSE
        /\ phase' = "tick"
        /\ last' = "TickClear"
        /\ UNCHANGED <<clockvars, calvars, pageout_reset_cnt, envvars,
                       po_share, nsecvars, queuevars, ckp, pushvars,
                       push_ticks, dmvars, npatch>>

\* the rest of schedpaging(): the choice of the wake-up mode
TickDecide ==
    /\ Running
    /\ phase = "tick"
    /\ PushLockFree
    /\ PageoutMutexFree
    /\ IF freemem < lotsfree + needfree \/ PAGE_SCAN_STARTUP
       THEN /\ scanners' = wake_scanners(scanners)
            /\ UNCHANGED <<desscan, pageout_nsec, zones_over, po_share, master>>
       ELSE IF zone_num_over_cap > 0
       THEN /\ desscan' = total_pages
            /\ pageout_nsec' = IF zone_pageout_nsec # 0
                               THEN zone_pageout_nsec
                               ELSE max_pageout_nsec
            /\ zones_over' = TRUE
            /\ scanners' = wake_scanners(scanners)
            /\ UNCHANGED <<po_share, master>>
       ELSE /\ master' = signal_pageout(master)
            /\ po_share' = IF share_can_halve
                           THEN po_share \div 2 ELSE po_share
            /\ UNCHANGED <<desscan, pageout_nsec, zones_over, scanners>>
    /\ phase' = "booted"
    /\ last' = "TickDecide"
    /\ UNCHANGED <<clockvars, calvars, poolvars, pageout_reset_cnt, envvars,
                   nscan, nsecvars, ckp, pushvars, push_ticks, dmvars, npatch>>
    /\ UNCHANGED <<async_list_size, req_freelist, push_list,
                   push_list_size, pushes, max_pushes, a_vp, v_count>>

\* a page lock, a page and a result that no checkpage call has touched yet
CkpFresh(hand) ==
    [pc |-> "idle", vp |-> 0, rv |-> 1, result |-> "none", hand |-> hand,
     locked |-> FALSE, zone |-> "ALL_ZONES", szc |-> 0, ref |-> FALSE,
     mod |-> FALSE, filtered |-> FALSE, demoted |-> FALSE,
     demref |-> FALSE, unloaded |-> FALSE, clrref |-> FALSE,
     queued |-> FALSE, jumps |-> 0, disposed |-> FALSE]

\* the hand of the next call: the back hand follows the front hand
NextHand ==
    IF ckp[1].hand = "POH_FRONT" /\ ckp[1].result # "none"
    THEN "POH_BACK" ELSE "POH_FRONT"

\* both calls of one iteration of the scan loop have returned
IterationDone == ckp[1].pc = "idle" /\ NextHand = "POH_FRONT"

\* the scan loop's test and the entry of checkpage for the front hand, or
\* the entry for the back hand after the front hand's call returned: the
\* unlocked screening, page_trylock, and the tests made under the lock
\* before zones_over is read
CkpStart(c, early, zone, v, szc) ==
    /\ Running
    /\ ckp[c].pc = "idle"
    /\ \E t \in DOMAIN scanners :
          /\ scanners[t].pc = "scan"
          /\ NextHand = "POH_FRONT" => ScanCond(scanners[t])
    /\ LET fresh == [CkpFresh(NextHand) EXCEPT !.zone = zone, !.vp = v,
                                               !.szc = szc]
       IN  ckp' = [ckp EXCEPT ![c] =
                     IF early = "none"
                     THEN [fresh EXCEPT !.pc = "zone", !.locked = TRUE]
                     ELSE [fresh EXCEPT !.result = "CKP_INELIGIBLE"]]
    /\ last' = "CkpStart"
    /\ UNCHANGED <<clockvars, calvars, poolvars, scanvars, envvars, schedvars,
                   nsecvars, queuevars, pushvars, push_ticks, dmvars,
                   bookvars>>

\* if (zones_over) ... and hat_pagesync(): r and m are the bits it returns
CkpZone(c, r, m) ==
    /\ Running
    /\ ckp[c].pc = "zone"
    /\ ckp' = [ckp EXCEPT ![c] =
          IF zones_over /\ ckp[c].zone # "over"
          THEN [@ EXCEPT !.locked = FALSE, !.pc = "idle", !.filtered = TRUE,
                         !.result = "CKP_INELIGIBLE"]
          ELSE [@ EXCEPT !.pc = "recheck", !.filtered = zones_over,
                         !.ref = r, !.mod = m]]
    /\ last' = "CkpZone"
    /\ UNCHANGED <<clockvars, calvars, poolvars, scanvars, envvars, schedvars,
                   nsecvars, queuevars, pushvars, push_ticks, dmvars,
                   bookvars>>

\* after a successful demotion the code goes on to the test of P_MOD
after_demote == "dirty"

\* recheck: the test of P_REF and the demotion of a large page; ok tells
\* whether page_try_demote_pages succeeds, r and m are the bits that
\* hat_page_getattr returns after it (demref keeps r for the properties)
CkpRecheck(c, ok, r, m) ==
    /\ Running
    /\ ckp[c].pc = "recheck"
    /\ (ckp[c].ref \/ ckp[c].szc = 0 \/ ~ok) => (~r /\ ~m)
    /\ (ckp[c].ref \/ ckp[c].szc = 0) => ok
    /\ ckp' = [ckp EXCEPT ![c] =
          IF ckp[c].ref
          THEN [@ EXCEPT !.clrref = (@ \/ ckp[c].hand = "POH_FRONT"),
                         !.locked = FALSE, !.pc = "idle",
                         !.result = "CKP_NOT_FREED"]
          ELSE IF ckp[c].szc # 0
          THEN IF ~ok
               THEN [@ EXCEPT !.locked = FALSE, !.pc = "idle",
                              !.result = "CKP_INELIGIBLE"]
               ELSE [@ EXCEPT !.szc = 0, !.demoted = TRUE, !.demref = r,
                              !.ref = r, !.mod = m, !.pc = after_demote]
          ELSE [@ EXCEPT !.pc = "dirty"]]
    /\ last' = "CkpRecheck"
    /\ UNCHANGED <<clockvars, calvars, poolvars, scanvars, envvars, schedvars,
                   nsecvars, queuevars, pushvars, push_ticks, dmvars,
                   bookvars>>

dirty_unlocks_late == FALSE

\* the test after the unload sending any modified page back to recheck
unload_rechecks_any(r, m, vp) == r \/ m

\* if ((ppattr & P_REF) || ((ppattr & P_MOD) && pp->p_vnode != NULL))
\*         goto recheck;
unload_rechecks(r, m, vp) == r \/ (m /\ vp # 0)

\* the page lock is given up before queue_io_request is called
dirty_unlocks == TRUE

\* the test of P_MOD: a dirty page with a vnode is held, unlocked and handed
\* to queue_io_request; any other page is unloaded, and freed unless the bits
\* r and m read after the unload send it back to recheck (jumps counts the
\* jumps of the call, disposed records VN_DISPOSE, for the properties)
CkpDirty(c, r, m) ==
    LET me == ckp[c]
    IN  /\ Running
        /\ me.pc = "dirty"
        /\ IF me.mod /\ me.vp # 0
           THEN /\ ~r /\ ~m
                /\ v_count' = [v_count EXCEPT ![me.vp] = @ + 1]
                /\ ckp' = [ckp EXCEPT ![c] =
                      [@ EXCEPT !.locked = ~dirty_unlocks, !.pc = "queue",
                                !.queued = TRUE]]
           ELSE /\ UNCHANGED v_count
                /\ ckp' = [ckp EXCEPT ![c] =
                      IF unload_rechecks(r, m, me.vp)
                      THEN [@ EXCEPT !.unloaded = TRUE, !.ref = r, !.mod = m,
                                     !.jumps = @ + 1, !.pc = "recheck"]
                      ELSE [@ EXCEPT !.unloaded = TRUE, !.locked = FALSE,
                                     !.disposed = TRUE,
                                     !.pc = "idle", !.result = "CKP_FREED"]]
        /\ last' = "CkpDirty"
        /\ UNCHANGED <<async_list_size, req_freelist, push_list,
                       push_list_size, pushes, max_pushes, a_vp, master>>
        /\ UNCHANGED <<clockvars, calvars, poolvars, scanvars, envvars,
                       schedvars, nsecvars, pushvars, push_ticks, dmvars,
                       bookvars>>

\* the end of a cycle, once the calls of the last iteration have returned
ScanEnd(t, elapsed) == IterationDone /\ ScanFinish(t, elapsed)

InitCkp ==
    /\ PoolCalibrated(TShare, 4, 1)
    /\ po_share = MIN_PO_SHARE
    /\ freemem = total_pages /\ needfree = 0 /\ deficit = 0
    /\ zone_num_over_cap = 1 /\ dopageout = TRUE
    /\ PoolBuilt(1, maxpgio, {1})
    /\ ckp = <<CkpFresh("POH_BACK")>>
    /\ DeadmanInit0(90)
    /\ phase = "booted" /\ npatch = 0 /\ last = "init"

NextCkp ==
    \/ TickClear
    \/ TickDecide
    \/ \E t \in DOMAIN scanners : ScannerWake(t)
    \/ \E c \in DOMAIN ckp, early \in EarlyReturns, zone \in PageZones,
          v \in {0, 1}, szc \in {0, 1} : CkpStart(c, early, zone, v, szc)
    \/ \E c \in DOMAIN ckp, r \in BOOLEAN, m \in BOOLEAN : CkpZone(c, r, m)
    \/ \E c \in DOMAIN ckp, ok \in BOOLEAN, r \in BOOLEAN, m \in BOOLEAN :
          CkpRecheck(c, ok, r, m)
    \/ \E c \in DOMAIN ckp, r \in BOOLEAN, m \in BOOLEAN : CkpDirty(c, r, m)
    \/ \E c \in DOMAIN ckp : CkpQueue(c)
    \/ \E c \in DOMAIN ckp : CkpReturn(c)
    \/ \E t \in DOMAIN scanners, elapsed \in ElapsedValues : ScanEnd(t, elapsed)

SpecCkp == InitCkp /\ [][NextCkp]_vars

(* C26: while the scanners run only because zones are over their cap (memory
   is not low, the calibration is complete), every page that checkpage frees
   or queues belongs to a zone that is over its cap. *)
C26_ZoneOnlyFrees ==
    \A c \in DOMAIN ckp :
        ckp[c].result = "CKP_FREED" => ckp[c].zone = "over"

(* C27: checkpage holds the exclusive page lock exactly from its successful
   page_trylock to its return: it holds it at the zone test, at recheck and
   at the test of P_MOD, and holds it no longer once it has returned on any
   path or has handed a dirty page to queue_io_request, so the page lock is
   never held while queue_io_request runs or push_lock is taken. *)
C27_PageLockScope ==
    /\ [](\A c \in DOMAIN ckp :
             ckp[c].locked <=> ckp[c].pc \in {"zone", "recheck", "dirty"})
    /\ [][last' = "CkpQueue" =>
             \A c \in DOMAIN ckp : ~ckp[c].locked /\ ~ckp'[c].locked]_vars

\* a dirty page was handed over and queue_io_request took it
C27_Witness ==
    /\ last = "CkpQueue"
    /\ ckp[1].pc = "ret" /\ ckp[1].rv = 1
    /\ ckp[1].queued /\ ~ckp[1].locked
    /\ push_list # <<>>

(* C29: a large page whose attributes, reloaded after a successful demotion,
   have P_REF set is treated as referenced: it is not handed to
   queue_io_request, its translations are not unloaded, and the call returns
   CKP_NOT_FREED. *)
C29_DemotedRefRechecked ==
    \A c \in DOMAIN ckp :
        ckp[c].demref =>
            /\ ~ckp[c].queued
            /\ ~ckp[c].unloaded
            /\ ckp[c].result \in {"none", "CKP_NOT_FREED"}

(* C28: once every live worker has repositioned its hands for the published
   n_page_scanners and handspreadpages, the page intervals from back hand to
   front hand of two distinct workers neither overlap nor touch on the
   circular page array: they have no page in common. *)
Repositioned(t) ==
    /\ scanners[t].inst < n_page_scanners
    /\ scanners[t].backhand = reset_backhand(scanners[t].inst)
    /\ scanners[t].fronthand = reset_fronthand(scanners[t].inst)

\* the pages from the back hand of worker t to its front hand
Region(t) ==
    LET gap == (scanners[t].fronthand - scanners[t].backhand + total_pages)
                  % total_pages
    IN  {page_nextn(scanners[t].backhand, j) : j \in 0..gap}

AllRepositioned ==
    /\ Len(scanners) = n_page_scanners
    /\ \A t \in DOMAIN scanners : Repositioned(t)
    /\ \A t1, t2 \in DOMAIN scanners :
          t1 # t2 => scanners[t1].inst # scanners[t2].inst

C28_RegionsApart ==
    AllRepositioned =>
        \A t1, t2 \in DOMAIN scanners :
            t1 # t2 => Region(t1) \cap Region(t2) = {}

(* C30: within one wake cycle of a worker the back hand never examines a
   page that the front hand of the same worker examined earlier in that
   cycle. *)
\* the pages the front hand of worker t has examined since the cycle began
FrontSeen(t) ==
    {page_nextn(scanners[t].fronthand, total_pages - (j % total_pages)) :
        j \in 1..scanners[t].pcount}

C30_BackAvoidsFrontPages ==
    [][\A t \in DOMAIN scanners :
          (/\ last' = "ScanIterate"
           /\ scanners[t].pc = "scan"
           /\ scanners'[t].pcount = scanners[t].pcount + 1)
          => scanners[t].backhand \notin FrontSeen(t)]_vars

(* ------------------------------------------------------------------ *)
(* The reset_hands latch under a resize.  The scheduler's resize is    *)
(* split between its store to n_page_scanners and its stores to        *)
(* reset_hands; a worker's wake is split at its read of the latch, its *)
(* read of n_page_scanners for the offset, its store that clears the   *)
(* latch and its second read of n_page_scanners.  The sixteen stores   *)
(* of the loop over reset_hands are one step: a worker reads and       *)
(* writes its own entry only.                                          *)
(* ------------------------------------------------------------------ *)
TLatch == 12
\* the spread the calibration found: with it a low-memory cycle has a page
\* budget (desscan) of 0, and a woken worker leaves its scan loop at once
LatchSpread == 3

\* the phase of a tick that has stored n_page_scanners and not yet the
\* latches; it keeps curr_nscan, the count the tick found
LatchPhases == <<"latch1", "latch2", "latch3", "latch4">>
curr_nscan == CHOOSE c \in DOMAIN LatchPhases : LatchPhases[c] = phase
InResize == \E c \in DOMAIN LatchPhases : LatchPhases[c] = phase

\* schedpaging up to and including n_page_scanners = des_page_scanners
SchedPublish ==
    LET vavail == sched_vavail
        des    == sched_des
    IN  /\ Running
        /\ phase = "booted"
        /\ PushLockFree
        /\ PageoutMutexFree
        /\ sched_resize
        /\ nscan' = 0
        /\ desscan' = sched_desscan(vavail)
        /\ pageout_nsec' = sched_pageout_nsec(vavail)
        /\ des_page_scanners' = des
        /\ n_page_scanners' = des
        /\ phase' = LatchPhases[n_page_scanners]
        /\ last' = "SchedPublish"
        /\ UNCHANGED <<reset_hands, zones_over, po_share, npatch>>
        /\ UNCHANGED <<clockvars, calvars, scanvars, envvars, nsecvars,
                       queuevars, ckp, pushvars, push_ticks, dmvars>>

\* the rest of that tick: the latches, the new threads and the wake-up
SchedLatch ==
    LET thr == IF n_page_scanners > curr_nscan
               THEN sched_spawn(scanners, curr_nscan, n_page_scanners)
               ELSE scanners
    IN  /\ Running
        /\ InResize
        /\ PushLockFree
        /\ PageoutMutexFree
        /\ reset_hands' = [i \in 0..(MAX_PSCAN_THREADS - 1) |-> TRUE]
        /\ IF freemem < lotsfree + needfree \/ PAGE_SCAN_STARTUP
           THEN /\ zones_over' = FALSE
                /\ scanners' = wake_scanners(thr)
                /\ UNCHANGED <<desscan, pageout_nsec, po_share, master>>
           ELSE IF zone_num_over_cap > 0
           THEN /\ desscan' = total_pages
                /\ pageout_nsec' = IF zone_pageout_nsec # 0
                                   THEN zone_pageout_nsec
                                   ELSE max_pageout_nsec
                /\ zones_over' = TRUE
                /\ scanners' = wake_scanners(thr)
                /\ UNCHANGED <<po_share, master>>
           ELSE /\ zones_over' = FALSE
                /\ scanners' = thr
                /\ master' = signal_pageout(master)
                /\ po_share' = IF share_can_halve
                               THEN po_share \div 2 ELSE po_share
                /\ UNCHANGED <<desscan, pageout_nsec>>
        /\ phase' = "booted"
        /\ last' = "SchedLatch"
        /\ UNCHANGED <<des_page_scanners, n_page_scanners, nscan, npatch>>
        /\ UNCHANGED <<clockvars, calvars, pageout_reset_cnt, envvars,
                       nsecvars, ckp, pushvars, push_ticks, dmvars>>
        /\ UNCHANGED <<async_list_size, req_freelist, push_list,
                       push_list_size, pushes, max_pushes, a_vp, v_count>>

\* a tick that finds the pool at its desired size
SchedSteady == ~sched_resize /\ Schedpaging

\* cv_wait returned: the dopageout test and the read of reset_hands[inst]
WakeTest(t) ==
    LET thr == scanners[t]
    IN  /\ Running
        /\ thr.pc = "woken"
        /\ PushLockFree
        /\ IF scanner_idles
           THEN /\ scanners' = [scanners EXCEPT ![t].pc = "wait"]
                /\ master' = signal_pageout(master)
           ELSE IF reset_hands[thr.inst]
           THEN /\ scanners' = [scanners EXCEPT ![t].pc = "offset"]
                /\ UNCHANGED master
           ELSE /\ \E fh \in IF thr.fronthand = -1 THEN StaleHands
                             ELSE {thr.fronthand},
                      bh \in IF thr.backhand = -1 THEN StaleHands
                             ELSE {thr.backhand} :
                      scanners' = [scanners EXCEPT ![t] =
                          start_cycle([thr EXCEPT !.backhand = bh,
                                                  !.fronthand = fh])]
                /\ UNCHANGED master
        /\ last' = "WakeTest"
        /\ UNCHANGED <<clockvars, calvars, poolvars, pageout_reset_cnt,
                       envvars, schedvars, nsecvars, ckp, pushvars,
                       push_ticks, dmvars, bookvars>>
        /\ UNCHANGED <<async_list_size, req_freelist, push_list,
                       push_list_size, pushes, max_pushes, a_vp, v_count>>

\* pgcnt_t offset = total_pages / n_page_scanners;
WakeOffset(t) ==
    /\ Running
    /\ scanners[t].pc = "offset"
    /\ scanners' = [scanners EXCEPT
                       ![t].offset = total_pages \div n_page_scanners,
                       ![t].pc = "clear"]
    /\ last' = "WakeOffset"
    /\ UNCHANGED <<clockvars, calvars, poolvars, pageout_reset_cnt, envvars,
                   schedvars, nsecvars, queuevars, ckp, pushvars, push_ticks,
                   dmvars, bookvars>>

\* reset_hands[inst] = B_FALSE;
WakeClear(t) ==
    /\ Running
    /\ scanners[t].pc = "clear"
    /\ reset_hands' = [reset_hands EXCEPT ![scanners[t].inst] = FALSE]
    /\ scanners' = [scanners EXCEPT ![t].pc = "exit_test"]
    /\ last' = "WakeClear"
    /\ UNCHANGED <<clockvars, calvars, des_page_scanners, n_page_scanners,
                   pageout_reset_cnt, envvars, schedvars, nsecvars, queuevars,
                   ckp, pushvars, push_ticks, dmvars, bookvars>>

\* the hands of instance inst out of the offset the worker computed
offset_backhand(inst, offset) == page_nextn(page_first, offset * inst)
offset_fronthand(inst, offset) ==
    IF handspreadpages >= total_pages
    THEN page_nextn(offset_backhand(inst, offset), total_pages - 1)
    ELSE page_nextn(offset_backhand(inst, offset), handspreadpages)

\* the test inst >= n_page_scanners; the exit, or the new hands and the
\* start of the scan cycle
WakeReposition(t) ==
    LET thr  == scanners[t]
        inst == thr.inst
    IN  /\ Running
        /\ thr.pc = "exit_test"
        /\ scanners' =
             IF scanner_exits(inst)
             THEN RemoveAt(scanners, t)
             ELSE [scanners EXCEPT ![t] =
                     start_cycle([thr EXCEPT
                         !.backhand = offset_backhand(inst, thr.offset),
                         !.fronthand = offset_fronthand(inst, thr.offset)])]
        /\ last' = "WakeReposition"
        /\ UNCHANGED <<clockvars, calvars, poolvars, pageout_reset_cnt,
                       envvars, schedvars, nsecvars, queuevars, ckp, pushvars,
                       push_ticks, dmvars, bookvars>>

\* three workers wanted after the calibration, and no free memory: every
\* tick wakes the workers
InitLatch ==
    /\ PoolCalibrated(TLatch, LatchSpread, 3)
    /\ po_share = MIN_PO_SHARE
    /\ freemem = 0 /\ needfree = 0 /\ deficit = 0
    /\ zone_num_over_cap = 0 /\ dopageout = TRUE
    /\ PoolBuilt(1, maxpgio, {1})
    /\ CkpInit0(1) /\ DeadmanInit0(90)
    /\ phase = "booted" /\ npatch = 0 /\ last = "init"

NextLatch ==
    \/ SchedPublish
    \/ SchedLatch
    \/ SchedSteady
    \/ \E t \in DOMAIN scanners : ScannerStart(t)
    \/ \E t \in DOMAIN scanners : WakeTest(t)
    \/ \E t \in DOMAIN scanners : WakeOffset(t)
    \/ \E t \in DOMAIN scanners : WakeClear(t)
    \/ \E t \in DOMAIN scanners : WakeReposition(t)
    \/ \E t \in DOMAIN scanners, elapsed \in ElapsedValues :
          ScanFinish(t, elapsed)
    \/ \E v \in 2..MaxThreads : OperatorSetDes(v)

SpecLatch == InitLatch /\ [][NextLatch]_vars

(* C31: once the scheduler has published a pool size and set the latches,
   a worker whose latch is clear again has taken its hands from that pool
   size: the latch is not consumed against an older n_page_scanners. *)
LatchConsumed(t) ==
    /\ scanners[t].pc \in {"scan", "end", "wait", "woken"}
    /\ scanners[t].offset # 0
    /\ ~reset_hands[scanners[t].inst]

C31_LatchNotLost ==
    phase = "booted" =>
        \A t \in DOMAIN scanners :
            (LatchConsumed(t) /\ scanners[t].inst < n_page_scanners) =>
                offset_backhand(scanners[t].inst, scanners[t].offset)
                    = reset_backhand(scanners[t].inst)

(* C32: no two live scanner threads have the same instance number, and
   there are never more than MAX_PSCAN_THREADS of them. *)
C32_OneWorkerPerInstance ==
    /\ Len(scanners) <= MAX_PSCAN_THREADS
    /\ \A t1, t2 \in DOMAIN scanners :
          t1 # t2 => scanners[t1].inst # scanners[t2].inst

(* ------------------------------------------------------------------ *)
(* The CPU budget of a scan cycle.  One worker scans a memory large    *)
(* enough for the poll points pcount = 1023, 2047, ... to be reached.  *)
(* The loop is taken a stretch of pages at a time, a stretch ending at *)
(* the latest at the next poll point, at the wrap of the front hand    *)
(* or where the page budget is used up; the poll is a step of its own. *)
(* ------------------------------------------------------------------ *)
TBudget == 1024
\* pages one cycle may examine
MaxPcount == 2048
\* timeouts counted (pageout_timeouts)
MaxTimeouts == 2
\* wraps of the front hand (iter)
MaxWraps == 3

poll_due_first(thr) == thr.pcount % (PAGES_POLL_MASK + 1) = 0

\* (pcount & PAGES_POLL_MASK) == PAGES_POLL_MASK
poll_due(thr) == thr.pcount % (PAGES_POLL_MASK + 1) = PAGES_POLL_MASK

\* pageout_cycle_nsec >= pageout_nsec
budget_used(cycle_nsec) == cycle_nsec >= pageout_nsec

\* the readings of gethrtime() - sample_start at a poll: the last one inside
\* the budget, the first one outside it, and a late one
CycleReadings == {pageout_nsec - 1, pageout_nsec, 2 * pageout_nsec}

\* the poll at the top of the loop body
ScanPoll(t, cycle_nsec) ==
    LET thr == scanners[t]
    IN  /\ Running
        /\ thr.pc = "scan"
        /\ ScanCond(thr)
        /\ poll_due(thr)
        /\ pageout_timeouts < MaxTimeouts
        /\ IF budget_used(cycle_nsec)
           THEN /\ pageout_timeouts' = IF ~zones_over
                                       THEN pageout_timeouts + 1
                                       ELSE pageout_timeouts
                /\ scanners' = [scanners EXCEPT ![t].pc = "end",
                                                ![t].cycle_nsec = cycle_nsec]
           ELSE /\ UNCHANGED pageout_timeouts
                /\ scanners' = [scanners EXCEPT ![t].pc = "polled",
                                                ![t].cycle_nsec = cycle_nsec]
        /\ last' = "ScanPoll"
        /\ UNCHANGED <<min_pageout_nsec, max_pageout_nsec, zone_pageout_nsec>>
        /\ UNCHANGED <<clockvars, calvars, poolvars, pageout_reset_cnt,
                       envvars, schedvars, queuevars, ckp, pushvars,
                       push_ticks, dmvars, bookvars>>

\* the iterations left before the next poll
PollGap(thr) ==
    IF poll_due(thr) THEN PAGES_POLL_MASK + 1
    ELSE PAGES_POLL_MASK - (thr.pcount % (PAGES_POLL_MASK + 1))

StretchKinds == {"ineligible", "kept", "freed"}

\* the length of the stretch worker t runs over pages of one kind
StretchLen(thr, kind) ==
    LET room == MIN(ToWrap(thr), PollGap(thr))
    IN  IF kind = "ineligible" THEN room
        ELSE MIN(room, thr.nscan_limit - thr.nscan_cnt)

\* a stretch of iterations of the loop body past the poll: every page pair of
\* it has both results CKP_INELIGIBLE, or none has and none is freed, or none
\* has and pages are freed
ScanStretch(t, kind) ==
    LET thr   == scanners[t]
        inst  == thr.inst
        k     == StretchLen(thr, kind)
        c1    == IF kind = "freed" THEN 0 ELSE thr.count
        fh    == page_nextn(thr.fronthand, k)
        wrap  == fh = page_first
        low   == freemem < lotsfree + needfree
        iter1 == IF wrap THEN thr.iter + 1 ELSE thr.iter
        c2    == IF wrap /\ low THEN c1 + 1 ELSE c1
        again == wrap /\ low /\ c2 > 1
    IN  /\ Running
        /\ \/ thr.pc = "scan" /\ ScanCond(thr) /\ ~poll_due(thr)
           \/ thr.pc = "polled"
        /\ thr.pcount + k <= MaxPcount
        /\ thr.iter < MaxWraps
        /\ scanners' = [scanners EXCEPT ![t] =
              [thr EXCEPT !.backhand = page_nextn(thr.backhand, k),
                          !.fronthand = fh,
                          !.pcount = thr.pcount + k,
                          !.nscan_cnt = IF kind = "ineligible"
                                        THEN thr.nscan_cnt
                                        ELSE thr.nscan_cnt + k,
                          !.iter = iter1, !.count = c2,
                          !.cycle_nsec = 0,
                          !.pc = IF again /\ po_share >= MAX_PO_SHARE
                                 THEN "end" ELSE "scan"]]
        /\ reset_hands' = IF wrap /\ iter1 % pageout_reset_cnt = 0
                          THEN [reset_hands EXCEPT ![inst] = TRUE]
                          ELSE reset_hands
        /\ po_share' = IF again /\ po_share < MAX_PO_SHARE
                       THEN 2 * po_share ELSE po_share
        /\ last' = "ScanStretch"
        /\ UNCHANGED <<clockvars, calvars, des_page_scanners, n_page_scanners,
                       pageout_reset_cnt, envvars, nscan, desscan,
                       pageout_nsec, zones_over, nsecvars, queuevars, ckp,
                       pushvars, push_ticks, dmvars, bookvars>>

\* the end of a cycle that did not stop at a poll
BudgetFinish(t, elapsed) ==
    /\ ~(scanners[t].pc = "scan" /\ ScanCond(scanners[t])
           /\ poll_due(scanners[t]))
    /\ ScanFinish(t, elapsed)

\* the spread of the calibrated start
BudgetSpread == 400

\* memory is plentiful.  Either the system has just booted, and the worker
\* scans for its startup samples, or the calibration is over, and it scans
\* when a zone is over its cap
InitBudget ==
    /\ \/ /\ ClockBooted(TBudget, 0, 2)
          /\ CalInit0 /\ pageout_reset_cnt = 2 /\ SchedInit0
          /\ scanners = <<NewScanner(0)>>
       \/ /\ PoolCalibrated(TBudget, BudgetSpread, 1)
          /\ po_share = MIN_PO_SHARE
    /\ EnvInit0
    /\ PoolBuilt(1, maxpgio, {1})
    /\ CkpInit0(1) /\ DeadmanInit0(90)
    /\ phase = "booted" /\ npatch = 0 /\ last = "init"

NextBudget ==
    \/ Schedpaging
    \/ \E t \in DOMAIN scanners : ScannerStart(t)
    \/ \E t \in DOMAIN scanners : ScannerWake(t)
    \/ \E t \in DOMAIN scanners, cycle_nsec \in CycleReadings :
          ScanPoll(t, cycle_nsec)
    \/ \E t \in DOMAIN scanners, kind \in StretchKinds : ScanStretch(t, kind)
    \/ \E t \in DOMAIN scanners, elapsed \in ElapsedValues :
          BudgetFinish(t, elapsed)
    \/ \E zc \in {0, 1} : EnvChange(total_pages, 0, zc)

SpecBudget == InitBudget /\ [][NextBudget]_vars

(* C33: the CPU budget is tested exactly at the iterations that start with
   pcount mod 1024 = 1023, and nowhere else; at such a test the loop is left
   exactly when the time read is at least pageout_nsec; pageout_timeouts
   goes up by one on that break exactly when zones_over is false then, and
   changes at no other step, so a cycle that examined fewer than 1023 page
   pairs records no timeout. *)
C33_BudgetPoll ==
    /\ [][last' = "ScanPoll" =>
            \E t \in DOMAIN scanners :
               LET spent == scanners'[t].cycle_nsec
               IN  /\ scanners[t].pc = "scan"
                   /\ scanners[t].pcount % (PAGES_POLL_MASK + 1)
                         = PAGES_POLL_MASK
                   /\ scanners'[t].pcount = scanners[t].pcount
                   /\ scanners'[t].pc =
                         IF spent >= pageout_nsec THEN "end" ELSE "polled"
                   /\ pageout_timeouts' =
                         IF spent >= pageout_nsec /\ ~zones_over
                         THEN pageout_timeouts + 1
                         ELSE pageout_timeouts]_vars
    /\ [][pageout_timeouts' # pageout_timeouts =>
            /\ last' = "ScanPoll"
            /\ \E t \in DOMAIN scanners :
                  /\ scanners[t].pcount >= PAGES_POLL_MASK
                  /\ scanners'[t].pc = "end"]_vars
    /\ [][\A t \in DOMAIN scanners :
            (t \in DOMAIN scanners'
             /\ scanners'[t].pcount > scanners[t].pcount) =>
               /\ scanners[t].pcount % (PAGES_POLL_MASK + 1) = PAGES_POLL_MASK
                     => scanners[t].pc = "polled"
               /\ \A p \in (scanners[t].pcount + 1)..
                           (scanners'[t].pcount - 1) :
                     p % (PAGES_POLL_MASK + 1) # PAGES_POLL_MASK]_vars

\* a startup cycle has just been ended by its first poll, and was counted
C33_Witness ==
    /\ last = "ScanPoll"
    /\ scanners[1].pc = "end"
    /\ scanners[1].pcount = PAGES_POLL_MASK
    /\ scanners[1].cycle_nsec = pageout_nsec
    /\ ~zones_over
    /\ pageout_timeouts = 1

(* C34: an iteration of the scan loop adds one to nscan_cnt exactly when
   one of its two checkpage results is not CKP_INELIGIBLE; nscan_cnt never
   exceeds pcount nor nscan_limit, which a cycle sets to total_pages while
   samples are being taken and to the desscan of that moment otherwise; at
   the end of the cycle nscan_cnt is added to nscan, which changes otherwise
   only by the scheduler's reset to 0 at every tick. *)
C34_ScanCount ==
    /\ [](\A t \in DOMAIN scanners :
             /\ scanners[t].nscan_cnt <= scanners[t].pcount
             /\ scanners[t].nscan_cnt <= scanners[t].nscan_limit)
    /\ [][\A t \in DOMAIN scanners :
            (last' = "ScanIterate"
             /\ scanners'[t].pcount = scanners[t].pcount + 1) =>
               scanners'[t].nscan_cnt =
                  IF scanners'[t].rvfront # "CKP_INELIGIBLE"
                     \/ scanners'[t].rvback # "CKP_INELIGIBLE"
                  THEN scanners[t].nscan_cnt + 1
                  ELSE scanners[t].nscan_cnt]_vars
    /\ [][\A t \in DOMAIN scanners :
            (last' = "ScannerWake" /\ scanners'[t].pc = "scan"
             /\ scanners[t].pc = "woken") =>
               /\ scanners'[t].pcount = 0 /\ scanners'[t].nscan_cnt = 0
               /\ scanners'[t].nscan_limit =
                     IF PAGE_SCAN_STARTUP THEN total_pages ELSE desscan]_vars
    /\ [][nscan' # nscan =>
            \/ last' = "Schedpaging" /\ nscan' = 0
            \/ /\ last' = "ScanFinish"
               /\ \E t \in DOMAIN scanners :
                     /\ scanners[t].pc \in {"scan", "end"}
                     /\ scanners'[t].pc = "wait"
                     /\ nscan' = nscan + scanners[t].nscan_cnt]_vars
    /\ [][last' = "Schedpaging" => nscan' = 0]_vars

\* a cycle that met ineligible page pairs has added its count to nscan
C34_Witness ==
    /\ last = "ScanFinish"
    /\ scanners[1].pc = "wait"
    /\ scanners[1].nscan_cnt > 0
    /\ scanners[1].pcount > scanners[1].nscan_cnt
    /\ nscan = scanners[1].nscan_cnt
    /\ pageout_new_spread # 0

(* C35: a worker doubles po_share only after a wrap of its front hand at
   which memory was low and which was at least the second such wrap since
   the worker freed a page or began the cycle; when po_share is at
   MAX_PO_SHARE there, the worker leaves its scan loop and po_share stays.
   The wrap that makes the worker's lap count a multiple of
   pageout_reset_cnt sets reset_hands of that worker's instance; no other
   entry is set by a scanning worker. *)
LapBy(t) ==
    /\ last' = "ScanLap"
    /\ t \in DOMAIN scanners'
    /\ scanners'[t].pcount > scanners[t].pcount

C35_WrapEscalation ==
    /\ [][\A t \in DOMAIN scanners :
            LapBy(t) =>
               LET low == freemem < lotsfree + needfree
               IN  /\ scanners'[t].fronthand = page_first
                   /\ scanners'[t].count =
                         (IF scanners'[t].rvfront = "CKP_FREED"
                          THEN 0 ELSE scanners[t].count)
                         + (IF low THEN 1 ELSE 0)
                   /\ scanners'[t].pc =
                         IF low /\ scanners'[t].count > 1
                         THEN "po_enter" ELSE "scan"
                   /\ scanners'[t].iter =
                         (scanners[t].iter + 1) % pageout_reset_cnt
                   /\ reset_hands' =
                         IF scanners'[t].iter = 0
                         THEN [reset_hands EXCEPT ![scanners[t].inst] = TRUE]
                         ELSE reset_hands
                   /\ po_share' = po_share]_vars
    /\ [][(last' = "ScannerWake" /\ Len(scanners') = Len(scanners)) =>
            \A t \in DOMAIN scanners :
               scanners'[t].pc = "scan" /\ scanners[t].pc = "woken"
                  => scanners'[t].count = 0]_vars
    /\ [][last' = "ShareUpdate" =>
            \E t \in DOMAIN scanners :
               /\ scanners[t].pc = "po_held"
               /\ scanners[t].count > 1
               /\ scanners[t].fronthand = page_first
               /\ IF po_share < MAX_PO_SHARE
                  THEN /\ po_share' = 2 * po_share
                       /\ scanners'[t].pc = "scan"
                  ELSE /\ po_share' = po_share
                       /\ scanners'[t].pc = "end"]_vars
    /\ [][po_share' > po_share => last' = "ShareUpdate"]_vars

\* worker 1 has doubled po_share at its second wrap since it freed a page,
\* and that wrap set its own latch only
C35_Witness ==
    /\ last = "ShareUpdate"
    /\ Len(scanners) = 2
    /\ scanners[2].inst = 1
    /\ scanners[2].pc = "scan"
    /\ scanners[2].count = 2
    /\ scanners[2].nscan_cnt = 0
    /\ po_share = 2 * MIN_PO_SHARE
    /\ reset_hands[1] /\ ~reset_hands[0]

(* C36: the master takes a request off the pending list only when the list
   is non-empty and pushes <= max_pushes = maxpgio / SCHEDPAGING_HZ, and it
   takes the head; the return of cv_wait sets pushes to 0; pushes rises by
   at most one per put_page and at no other step, so that it never exceeds
   max_pushes + 1, the number of successful put_page calls between two
   waits.  Whatever put_page returned, the completion clears
   pageout_pushing, adds one to pageout_pushcount, puts the slot at the
   head of the freelist and takes one off push_list_size, and leaves
   pushes alone. *)
C36_PushLimit ==
    /\ [](max_pushes = maxpgio \div SCHEDPAGING_HZ)
    /\ [](pushes <= max_pushes + 1)
    /\ [][(master.pc = "lock" /\ master'.pc = "putpage") =>
            /\ push_list # <<>>
            /\ pushes <= max_pushes
            /\ master'.arg = Head(push_list)
            /\ push_list' = Tail(push_list)
            /\ pageout_pushing']_vars
    /\ [][(master.pc = "lock" /\ master'.pc = "wait") =>
            (push_list = <<>> \/ pushes = max_pushes + 1)]_vars
    /\ [][(master.pc = "woken" /\ master'.pc # "woken") => pushes' = 0]_vars
    /\ [][pushes' # pushes =>
            \/ master.pc = "woken" /\ pushes' = 0
            \/ master.pc = "putpage" /\ pushes' = pushes + 1]_vars
    /\ [][(master.pc = "putpage" /\ master'.pc # "putpage") =>
            /\ master'.pc = "rele"
            /\ master'.arg = master.arg
            /\ pushes' \in {pushes, pushes + 1}
            /\ UNCHANGED <<req_freelist, push_list, push_list_size,
                           pageout_pushing, pageout_pushcount>>]_vars
    /\ [][(master.pc = "done" /\ master'.pc # "done") =>
            /\ ~pageout_pushing'
            /\ pushes' = pushes]_vars
    /\ [][(master.pc = "done2" /\ master'.pc # "done2") =>
            /\ master'.pc = "lock"
            /\ pageout_pushcount' = pageout_pushcount + 1
            /\ req_freelist' = <<master.arg>> \o req_freelist
            /\ push_list_size' = push_list_size - 1
            /\ ~pageout_pushing'
            /\ pushes' = pushes]_vars

\* the master waits with a request pending because it has made
\* max_pushes + 1 successful pushes since it last woke
C36_Witness ==
    /\ master.pc = "wait"
    /\ pushes = max_pushes + 1
    /\ push_list # <<>>
    /\ pageout_pushcount = max_pushes + 1

(* ------------------------------------------------------------------ *)
(* The pending list under fair scheduling.  The master's steps, the     *)
(* steps of a checkpage call that has taken its hold, and the           *)
(* scheduler's cv_signal_pageout() are taken whenever they stay         *)
(* enabled; whether another page is handed to checkpage is left open.   *)
(* pageout_pushcount is kept modulo PushWrap, as its 64 bits wrap.      *)
(* ------------------------------------------------------------------ *)
PushWrap == 4

\* the threads calling checkpage
DrainCallers == 1

\* pageout_pushcount++; the slot goes back on the freelist; push_list_size--
MasterFreeWrap ==
    /\ Running
    /\ master.pc = "done2"
    /\ pageout_pushcount' = push_completed % PushWrap
    /\ req_freelist' = <<master.arg>> \o req_freelist
    /\ push_list_size' = push_list_size - 1
    /\ master' = [pc |-> "lock", arg |-> 0]
    /\ last' = "MasterFree"
    /\ UNCHANGED <<async_list_size, push_list, pushes, max_pushes, a_vp,
                   v_count, pageout_pushing>>
    /\ UNCHANGED <<clockvars, calvars, poolvars, scanvars, envvars, schedvars,
                   nsecvars, ckp, push_ticks, dmvars, bookvars>>

InitDrain ==
    /\ ClockBooted(262144, 4, 0)
    /\ CalInit0 /\ ScanInit0(64) /\ EnvInit0 /\ SchedInit0
    /\ \E n \in 1..MaxAsync : PoolBuilt(n, maxpgio, {1})
    /\ CkpInit0(DrainCallers) /\ DeadmanInit0(90)
    /\ phase = "running" /\ npatch = 0 /\ last = "init"

NextDrain ==
    \/ \E c \in DOMAIN ckp : CkpEnter(c)
    \/ \E c \in DOMAIN ckp : CkpQueue(c)
    \/ \E c \in DOMAIN ckp : CkpReturn(c)
    \/ CvSignalPageout
    \/ MasterCheck
    \/ MasterWoken
    \/ \E ok \in BOOLEAN : MasterPutpage(ok)
    \/ MasterRele
    \/ MasterDone
    \/ MasterFreeWrap

\* every VOP_PUTPAGE returns, the scheduler keeps calling
\* cv_signal_pageout(), and a thread that can run does run
FairDrain ==
    /\ WF_vars(MasterCheck)
    /\ WF_vars(MasterWoken)
    /\ WF_vars(\E ok \in BOOLEAN : MasterPutpage(ok))
    /\ WF_vars(MasterRele)
    /\ WF_vars(MasterDone)
    /\ WF_vars(MasterFreeWrap)
    /\ WF_vars(CvSignalPageout)
    /\ \A c \in 1..DrainCallers : WF_vars(CkpQueue(c)) /\ WF_vars(CkpReturn(c))

SpecDrain == InitDrain /\ [][NextDrain]_vars /\ FairDrain

(* C37: under fair scheduling every request on the pending list is
   eventually handed to VOP_PUTPAGE by the master and its slot is
   eventually back on the freelist, also while other requests keep being
   queued. *)
C37_EveryRequestPushed ==
    \A i \in 1..MaxAsync :
        /\ (\E k \in DOMAIN push_list : push_list[k] = i)
              ~> (master.pc = "putpage" /\ master.arg = i)
        /\ (\E k \in DOMAIN push_list : push_list[k] = i)
              ~> (\E k \in DOMAIN req_freelist : req_freelist[k] = i)

\* the master does not wait forever with a request pending
C37_MasterNotStuck ==
    (master.pc = "wait" /\ push_list # <<>>) ~> (master.pc # "wait")

\* the pending list does not stay non-empty forever without a push
C37_SomeRequestPushed ==
    (push_list # <<>>) ~> (master.pc = "putpage")

(* ------------------------------------------------------------------ *)
(* checkpage under fair scheduling: a call that has started takes its   *)
(* next step; the attribute bits the page reports stay free.            *)
(* ------------------------------------------------------------------ *)
FairCkp ==
    /\ WF_vars(\E r \in BOOLEAN, m \in BOOLEAN : CkpZone(1, r, m))
    /\ WF_vars(\E ok \in BOOLEAN, r \in BOOLEAN, m \in BOOLEAN :
                  CkpRecheck(1, ok, r, m))
    /\ WF_vars(\E r \in BOOLEAN, m \in BOOLEAN : CkpDirty(1, r, m))
    /\ WF_vars(CkpQueue(1))
    /\ WF_vars(CkpReturn(1))

SpecCkpFair == InitCkp /\ [][NextCkp]_vars /\ FairCkp

(* C38: a call of checkpage jumps back to recheck at most once, whatever
   bits the page reports after the demotion and after the unload, and
   every call that has started returns, with CKP_INELIGIBLE, CKP_NOT_FREED
   or CKP_FREED; it returns CKP_FREED only when it disposed of the page or
   when queue_io_request took its request, that is put a slot of the
   freelist on the pending list. *)
C38_CheckpageTerminates ==
    /\ [](\A c \in DOMAIN ckp : ckp[c].jumps <= 1)
    /\ \A c \in 1..1 : (ckp[c].pc # "idle") ~> (ckp[c].pc = "idle")
    /\ [][\A c \in DOMAIN ckp :
            (ckp'[c] # ckp[c] /\ ckp'[c].pc = "idle") =>
               ckp'[c].result \in {"CKP_INELIGIBLE", "CKP_NOT_FREED",
                                   "CKP_FREED"}]_vars
    /\ [](\A c \in DOMAIN ckp :
            ckp[c].result = "CKP_FREED" =>
               \/ ckp[c].disposed /\ ckp[c].unloaded /\ ~ckp[c].queued
               \/ ckp[c].queued /\ ckp[c].rv = 1 /\ ~ckp[c].disposed)
    /\ [][\A c \in DOMAIN ckp :
            (ckp[c].pc = "queue" /\ ckp'[c].pc = "ret") =>
               IF req_freelist = <<>>
               THEN ckp'[c].rv = 0 /\ push_list' = push_list
               ELSE /\ ckp'[c].rv = 1
                    /\ push_list' = <<Head(req_freelist)>> \o push_list]_vars

\* a call returned CKP_FREED for a page that, after the unload, was found
\* modified, went back to recheck and was queued
C38_Witness ==
    /\ ckp[1].pc = "idle"
    /\ ckp[1].result = "CKP_FREED"
    /\ ckp[1].jumps = 1
    /\ ckp[1].unloaded /\ ckp[1].queued
    /\ ckp[1].demoted

====
